---------------------------- MODULE Spec2Model ----------------------------
(***************************************************************************)
(* A model of the fuzzy line matcher lhdiff of src/ldiff/LHDiff.py and of  *)
(* the unmatched report that main builds from its result.                  *)
(*                                                                         *)
(* A line is a sequence of one-character strings.  Line and token indices  *)
(* are 0-based as in the source; At(s, i) reads the i-th element.          *)
(*                                                                         *)
(* Scores are the source's floats held in fixed point: ScoreOne stands for *)
(* 1.0.  Levenshtein distances are kept as exact fractions <<num, den>>.   *)
(***************************************************************************)
EXTENDS Integers, Sequences, FiniteSets, TLC

(***************************************************************************)
(* Bounds of the model.                                                    *)
(***************************************************************************)
MaxOld == 2

MaxNew == 3

\* the longest old file of the runs of InitInserted
MaxOldInserted == 3

\* the length of the new file of the runs of InitSpan
MaxNewSpan == 4

\* the longest old and new file of the runs of InitConfig
MaxOldConfig == 2

MaxNewConfig == 2

\* The raw lines the inputs are drawn from.
Vocabulary ==
    { << >>,
      <<"a">>,
      <<"A", " ", " ", "b">>,
      <<"a", " ", "b", " ", "c">> }

\* The per-run keys of the builtin string hash (PYTHONHASHSEED).
HashSeeds == {0, 1}

(***************************************************************************)
(* Program constants, src/ldiff/LHDiff.py lines 9-13.                      *)
(***************************************************************************)
SIMHASH_BITS == 64

CANDIDATES_PER_LINE == 15

CONTEXT_WINDOW == 4

\* max_span, the default of detect_line_split
MAX_SPAN == 4

\* 1.0 in fixed point
ScoreOne == 10000

MAIN_SIM_THRESHOLD == (4 * ScoreOne) \div 10

SPLIT_SIM_THRESHOLD == (35 * ScoreOne) \div 100

(***************************************************************************)
(* Generic helpers.                                                        *)
(***************************************************************************)
At(s, i) == s[i + 1]

Min(a, b) == IF a < b THEN a ELSE b

Max(a, b) == IF a > b THEN a ELSE b

\* range(lo, hi) as a sequence
Range(lo, hi) == [k \in 1..Max(hi - lo, 0) |-> lo + k - 1]

BoundedSeq(S, n) == UNION {[1..k -> S] : k \in 0..n}

(***************************************************************************)
(* Characters.                                                             *)
(***************************************************************************)
Whitespace == {" ", "\t"}

Punct == {"=", "+", "-", "*", "/", "[", "]", "(", ")", ","}

LowerMap == ("A" :> "a") @@ ("B" :> "b") @@ ("C" :> "c")

Alnum == {"a", "b", "c", "A", "B", "C", "0", "1", "_"}

ToLower(c) == IF c \in DOMAIN LowerMap THEN LowerMap[c] ELSE c

(***************************************************************************)
(* normalize_line, is_blank, tokenize.                                     *)
(***************************************************************************)
RECURSIVE LStrip(_)
LStrip(s) ==
    IF s # << >> /\ Head(s) \in Whitespace THEN LStrip(Tail(s)) ELSE s

RECURSIVE RStrip(_)
RStrip(s) ==
    IF s # << >> /\ s[Len(s)] \in Whitespace
    THEN RStrip(SubSeq(s, 1, Len(s) - 1))
    ELSE s

Strip(s) == RStrip(LStrip(s))

Lower(s) == [k \in 1..Len(s) |-> ToLower(s[k])]

RECURSIVE CollapseWs(_)
\* re.sub(r"\s+", " ", s): every maximal whitespace run becomes one space
CollapseWs(s) ==
    IF s = << >> THEN << >>
    ELSE IF Head(s) \in Whitespace
         THEN <<" ">> \o CollapseWs(LStrip(s))
         ELSE <<Head(s)>> \o CollapseWs(Tail(s))

\* TightenPunct that removes nothing
TightenPunct_Keep(s) == s

\* re.sub(r"\s*([=+\-*/\[\]\(\),])\s*", r"\1", s) for an s whose whitespace
\* runs are single characters: the whitespace next to a punctuation
\* character is removed
TightenPunct(s) ==
    LET dropped(k) ==
            /\ s[k] \in Whitespace
            /\ \/ k > 1 /\ s[k - 1] \in Punct
               \/ k < Len(s) /\ s[k + 1] \in Punct
        kept == SelectSeq([k \in 1..Len(s) |-> k], LAMBDA k : ~dropped(k))
    IN  [m \in 1..Len(kept) |-> s[kept[m]]]

normalize_line(s) == TightenPunct(CollapseWs(Lower(Strip(s))))

RECURSIVE NormalizeAll(_)
\* [normalize_line(s) for s in lines], lines 223-224
NormalizeAll(lines) ==
    IF lines = << >> THEN << >>
    ELSE <<normalize_line(Head(lines))>> \o NormalizeAll(Tail(lines))

is_blank(norm_line) == Strip(norm_line) = << >>

RECURSIVE TokenScan(_, _)
\* the loop of tokenize: token is the run being accumulated
TokenScan(s, token) ==
    IF s = << >>
    THEN IF token # << >> THEN <<token>> ELSE << >>
    ELSE IF Head(s) \in Alnum
         THEN TokenScan(Tail(s), Append(token, Head(s)))
         ELSE (IF token # << >> THEN <<token>> ELSE << >>)
              \o TokenScan(Tail(s), << >>)

tokenize(s) == TokenScan(s, << >>)

(***************************************************************************)
(* get_context_window, context_vector, cosine_similarity.                  *)
(***************************************************************************)
get_context_window(lines, idx) ==
    LET start == Max(0, idx - CONTEXT_WINDOW)
        end   == Min(Len(lines), idx + CONTEXT_WINDOW + 1)
        ks    == SelectSeq(Range(start, end), LAMBDA i : i # idx)
    IN  [k \in 1..Len(ks) |-> At(lines, ks[k])]

RECURSIVE Join(_)
\* " ".join(lines)
Join(lines) ==
    IF lines = << >> THEN << >>
    ELSE IF Len(lines) = 1 THEN Head(lines)
         ELSE Head(lines) \o <<" ">> \o Join(Tail(lines))

\* Counter(tokens): token -> number of occurrences
Counter(tokens) ==
    [t \in {tokens[k] : k \in DOMAIN tokens} |->
        Cardinality({k \in DOMAIN tokens : tokens[k] = t})]

context_vector(norm_lines, idx) ==
    Counter(tokenize(Join(get_context_window(norm_lines, idx))))

RECURSIVE SumOver(_, _)
\* the sum of f[x] over the finite set S
SumOver(f, S) ==
    IF S = {} THEN 0
    ELSE LET x == CHOOSE y \in S : TRUE
         IN  f[x] + SumOver(f, S \ {x})

RECURSIVE ISqrtIn(_, _, _)
\* the largest r in lo..hi with r * r <= x
ISqrtIn(x, lo, hi) ==
    IF lo >= hi THEN lo
    ELSE LET mid == (lo + hi + 1) \div 2
         IN  IF mid * mid <= x THEN ISqrtIn(x, mid, hi)
             ELSE ISqrtIn(x, lo, mid - 1)

\* dot / (norm1 * norm2) in thousandths; 0 when a vector is empty
cosine_similarity(vec1, vec2) ==
    IF DOMAIN vec1 = {} \/ DOMAIN vec2 = {} THEN 0
    ELSE LET shared == DOMAIN vec1 \cap DOMAIN vec2
             dot    == SumOver([t \in shared |-> vec1[t] * vec2[t]], shared)
             sq1    == SumOver([t \in DOMAIN vec1 |-> vec1[t] * vec1[t]],
                               DOMAIN vec1)
             sq2    == SumOver([t \in DOMAIN vec2 |-> vec2[t] * vec2[t]],
                               DOMAIN vec2)
             unit   == ScoreOne \div 10
         IN  ISqrtIn((dot * dot * unit * unit) \div (sq1 * sq2), 0, unit)

(***************************************************************************)
(* normalized_levenshtein: the two-row edit distance, as <<num, den>>.     *)
(***************************************************************************)
RECURSIVE LevRow_NoSubstitution(_, _, _, _)
\* LevRow without the substitution term prev[j - 1] + cost
LevRow_NoSubstitution(prev, c1, s2, curr) ==
    IF Len(curr) = Len(s2) + 1 THEN curr
    ELSE LET j == Len(curr)
             v == Min(prev[j + 1] + 1, curr[j] + 1)
         IN  LevRow_NoSubstitution(prev, c1, s2, Append(curr, v))

RECURSIVE LevRow(_, _, _, _)
\* the inner loop over j: curr is the row built so far (curr[1] is column 0)
LevRow(prev, c1, s2, curr) ==
    IF Len(curr) = Len(s2) + 1 THEN curr
    ELSE LET j    == Len(curr)
             cost == IF c1 = s2[j] THEN 0 ELSE 1
             v    == Min(Min(prev[j + 1] + 1, curr[j] + 1), prev[j] + cost)
         IN  LevRow(prev, c1, s2, Append(curr, v))

RECURSIVE LevRows(_, _, _, _)
\* the outer loop over i: prev is row i - 1
LevRows(s1, s2, i, prev) ==
    IF i > Len(s1) THEN prev
    ELSE LevRows(s1, s2, i + 1, LevRow(prev, s1[i], s2, <<i>>))

normalized_levenshtein(s1, s2) ==
    IF s1 = s2 THEN <<0, 1>>
    ELSE IF s1 = << >> \/ s2 = << >> THEN <<1, 1>>
    ELSE LET prev == LevRows(s1, s2, 1, [j \in 1..(Len(s2) + 1) |-> j - 1])
         IN  <<prev[Len(s2) + 1], Max(Len(s1), Len(s2))>>

\* d1 < d2 on distances
DistLess(d1, d2) == d1[1] * d2[2] < d2[1] * d1[2]

\* combined = 0.6 * content_sim + 0.4 * ctx_sim (lines 306-308, 336-338)
Combined(o_norm, n_norm, o_vecs, n_vecs, i, j) ==
    LET d    == normalized_levenshtein(At(o_norm, i), At(n_norm, j))
        unit == ScoreOne \div 10
    IN  (6 * unit * (d[2] - d[1])) \div d[2]
          + 4 * cosine_similarity(At(o_vecs, i), At(n_vecs, j))

(***************************************************************************)
(* simhash, hamming_distance, build_line_signatures.  A fingerprint is the *)
(* set of its 1 bits.  hash(token) is the builtin keyed string hash; the   *)
(* model takes a keyed polynomial hash of HashWidth bits in its place.     *)
(***************************************************************************)
HashWidth == 3

CharCode ==
    ("a" :> 1) @@ ("b" :> 2) @@ ("c" :> 3) @@ ("A" :> 4) @@ ("B" :> 5)
    @@ ("C" :> 6) @@ ("0" :> 7) @@ ("1" :> 8) @@ ("_" :> 9)

RECURSIVE PolyHash(_, _)
PolyHash(token, h) ==
    IF token = << >> THEN h
    ELSE PolyHash(Tail(token),
                  (h * 5 + CharCode[Head(token)]) % (2 ^ HashWidth))

\* h = hash(token), line 124
hash(token, key) == PolyHash(token, (3 * key + 1) % (2 ^ HashWidth))

\* (h >> i) & 1
HashBit(h, i) == IF i >= HashWidth THEN 0 ELSE (h \div (2 ^ i)) % 2

RECURSIVE HashAll(_, _)
\* hash(token) of every token of the list
HashAll(tokens, key) ==
    IF tokens = << >> THEN << >>
    ELSE <<hash(Head(tokens), key)>> \o HashAll(Tail(tokens), key)

\* BitCounter that counts the last token only
BitCounter_LastOnly(hs, i) ==
    IF hs = << >> THEN 0
    ELSE IF HashBit(hs[Len(hs)], i) = 1 THEN 1 ELSE -1

RECURSIVE BitCounter(_, _)
\* v[i] after the loop over the tokens, whose hashes are hs
BitCounter(hs, i) ==
    IF hs = << >> THEN 0
    ELSE (IF HashBit(Head(hs), i) = 1 THEN 1 ELSE -1)
         + BitCounter(Tail(hs), i)

\* Bit i of every hash is 0 for i >= HashWidth, which leaves v[i] negative:
\* only the bits below HashWidth can be set in the result.
simhash(tokens, bits, key) ==
    IF tokens = << >> THEN {}
    ELSE LET hs == HashAll(tokens, key)
         IN  {i \in 0..(Min(bits, HashWidth) - 1) : BitCounter(hs, i) > 0}

\* the number of bits of a ^ b
hamming_distance(a, b) == Cardinality((a \ b) \cup (b \ a))

\* <<content_hashes, context_hashes>>
build_line_signatures(norm_lines, bits, key) ==
    << [k \in 1..Len(norm_lines) |->
           simhash(tokenize(norm_lines[k]), bits, key)],
       [k \in 1..Len(norm_lines) |->
           simhash(tokenize(Join(get_context_window(norm_lines, k - 1))),
                   bits, key)] >>

(***************************************************************************)
(* get_candidates_for_line.                                                *)
(***************************************************************************)
\* HashScore on the content fingerprints alone
HashScore_ContentOnly(c_hash, ctx_hash, c2, ctx2, bits) ==
    10 * (bits - hamming_distance(c_hash, c2))

\* combined = 0.6 * sim_c + 0.4 * sim_ctx of lines 176-180, times 10 * bits.
\* For distances up to 3 (HashWidth bits) the floating-point values of the
\* code are ordered as these integers are, equal ones included.
HashScore(c_hash, ctx_hash, c2, ctx2, bits) ==
    6 * (bits - hamming_distance(c_hash, c2))
      + 4 * (bits - hamming_distance(ctx_hash, ctx2))

RECURSIVE SortDesc(_)
\* scores.sort(reverse=True, key=lambda x: x[0]): descending score, equal
\* scores in their original order
SortDesc(scores) ==
    IF scores = << >> THEN << >>
    ELSE LET top == CHOOSE k \in 1..Len(scores) :
                       /\ \A m \in 1..Len(scores) : scores[m][1] <= scores[k][1]
                       /\ \A m \in 1..(k - 1) : scores[m][1] < scores[k][1]
         IN  <<scores[top]>>
               \o SortDesc(SubSeq(scores, 1, top - 1)
                             \o SubSeq(scores, top + 1, Len(scores)))

RECURSIVE HashScores(_, _, _, _, _, _)
\* the list scores of lines 170-181, of pairs <<combined, j>>
HashScores(c_hash, ctx_hash, add_indices, n_chash, n_xhash, bits) ==
    IF add_indices = << >> THEN << >>
    ELSE LET j == Head(add_indices)
         IN  << <<HashScore(c_hash, ctx_hash, At(n_chash, j),
                            At(n_xhash, j), bits), j>> >>
             \o HashScores(c_hash, ctx_hash, Tail(add_indices),
                           n_chash, n_xhash, bits)

get_candidates_for_line(del_idx, add_indices, o_chash, o_xhash, n_chash, n_xhash, k, bits) ==
    LET sorted == SortDesc(HashScores(At(o_chash, del_idx),
                                      At(o_xhash, del_idx), add_indices,
                                      n_chash, n_xhash, bits))
        \* scores[:k]: a negative k leaves out the last -k elements
        kept   == IF k >= 0 THEN Min(k, Len(sorted))
                  ELSE Max(Len(sorted) + k, 0)
    IN  [m \in 1..kept |-> sorted[m][2]]

(***************************************************************************)
(* detect_line_split.                                                      *)
(***************************************************************************)
RECURSIVE SplitLoop(_, _, _, _, _, _, _, _)
\* the loop over step in range(1, max_span)
SplitLoop(base, first_new_idx, n_norm, max_span, step, cur_indices, best_indices, best_dist) ==
    IF step >= max_span \/ first_new_idx + step >= Len(n_norm)
    THEN best_indices
    ELSE LET cur == Append(cur_indices, first_new_idx + step)
             d   == normalized_levenshtein(
                        base, Join([k \in 1..Len(cur) |-> At(n_norm, cur[k])]))
         IN  IF DistLess(d, best_dist)
             THEN SplitLoop(base, first_new_idx, n_norm, max_span, step + 1,
                            cur, cur, d)
             ELSE best_indices

\* detect_line_split that never extends the span
detect_line_split_Single(old_idx, first_new_idx, o_norm, n_norm, max_span) ==
    <<first_new_idx>>

\* detect_line_split with best_dist started at the largest distance instead
\* of the distance to first_new_idx alone
detect_line_split_FromOne(old_idx, first_new_idx, o_norm, n_norm, max_span) ==
    SplitLoop(At(o_norm, old_idx), first_new_idx, n_norm, max_span, 1,
              <<first_new_idx>>, <<first_new_idx>>, <<1, 1>>)

\* lines 188-215
detect_line_split(old_idx, first_new_idx, o_norm, n_norm, max_span) ==
    SplitLoop(At(o_norm, old_idx), first_new_idx, n_norm, max_span, 1,
              <<first_new_idx>>, <<first_new_idx>>,
              normalized_levenshtein(At(o_norm, old_idx),
                                     At(n_norm, first_new_idx)))

(***************************************************************************)
(* difflib.SequenceMatcher(None, a, b).get_opcodes() as called on lines    *)
(* 228-229, for sequences shorter than the 200 elements at which the       *)
(* library starts to discard popular elements.  An opcode is               *)
(* <<tag, i1, i2, j1, j2>>.                                                *)
(***************************************************************************)
RECURSIVE RunLen(_, _, _, _, _, _)
\* the length of the common block of a[i:ahi] and b[j:bhi] starting at i, j
RunLen(a, b, i, j, ahi, bhi) ==
    IF i < ahi /\ j < bhi /\ At(a, i) = At(b, j)
    THEN 1 + RunLen(a, b, i + 1, j + 1, ahi, bhi)
    ELSE 0

\* the longest common block of a[alo:ahi] and b[blo:bhi]; of the longest
\* blocks the one starting earliest in a and, of those, earliest in b
\* (the first to reach the best size in the loops over i and j)
find_longest_match(a, b, alo, ahi, blo, bhi) ==
    LET starts == (alo..(ahi - 1)) \X (blo..(bhi - 1))
        found  == {<<p[1], p[2], RunLen(a, b, p[1], p[2], ahi, bhi)>> :
                      p \in starts}
    IN  IF \A x \in found : x[3] = 0 THEN <<alo, blo, 0>>
        ELSE CHOOSE x \in found :
                \A y \in found :
                   \/ y[3] < x[3]
                   \/ /\ y[3] = x[3]
                      /\ \/ x[1] < y[1]
                         \/ x[1] = y[1] /\ x[2] <= y[2]

RECURSIVE MatchingBlocks(_, _, _, _, _, _)
RECURSIVE BlocksAround(_, _, _, _, _, _, _)
\* the blocks found by get_matching_blocks in a[alo:ahi], b[blo:bhi], sorted
MatchingBlocks(a, b, alo, ahi, blo, bhi) ==
    BlocksAround(a, b, alo, ahi, blo, bhi,
                 find_longest_match(a, b, alo, ahi, blo, bhi))

\* x is the longest block <<i, j, k>>; the search goes on to its left and
\* to its right
BlocksAround(a, b, alo, ahi, blo, bhi, x) ==
    IF x[3] = 0 THEN << >>
    ELSE (IF alo < x[1] /\ blo < x[2]
          THEN MatchingBlocks(a, b, alo, x[1], blo, x[2]) ELSE << >>)
         \o <<x>>
         \o (IF x[1] + x[3] < ahi /\ x[2] + x[3] < bhi
             THEN MatchingBlocks(a, b, x[1] + x[3], ahi, x[2] + x[3], bhi)
             ELSE << >>)

RECURSIVE OpcodesFrom(_, _, _)
\* the loop of get_opcodes over the matching blocks, from position i, j
OpcodesFrom(blocks, i, j) ==
    IF blocks = << >> THEN << >>
    ELSE LET ai   == Head(blocks)[1]
             bj   == Head(blocks)[2]
             size == Head(blocks)[3]
             tag  == IF i < ai /\ j < bj THEN "replace"
                     ELSE IF i < ai THEN "delete"
                     ELSE IF j < bj THEN "insert"
                     ELSE ""
         IN  (IF tag # "" THEN << <<tag, i, ai, j, bj>> >> ELSE << >>)
             \o (IF size > 0
                 THEN << <<"equal", ai, ai + size, bj, bj + size>> >>
                 ELSE << >>)
             \o OpcodesFrom(Tail(blocks), ai + size, bj + size)

get_opcodes(a, b) ==
    OpcodesFrom(Append(MatchingBlocks(a, b, 0, Len(a), 0, Len(b)),
                       <<Len(a), Len(b), 0>>),
                0, 0)

(***************************************************************************)
(* The loop of lhdiff over the opcodes, lines 231-249.                     *)
(***************************************************************************)
RECURSIVE MapSpan_NoOffset(_, _, _, _)
\* MapSpan with new_idx = j1: the offset is left out on the new side
MapSpan_NoOffset(i1, j1, size, offset) ==
    IF offset >= size THEN << >>
    ELSE ((i1 + offset) :> <<j1>>)
         @@ MapSpan_NoOffset(i1, j1, size, offset + 1)

RECURSIVE MapSpan(_, _, _, _)
\* the loop of lines 240-243 from offset on: mapping[i1 + offset] is set to
\* [j1 + offset]
MapSpan(i1, j1, size, offset) ==
    IF offset >= size THEN << >>
    ELSE ((i1 + offset) :> <<j1 + offset>>)
         @@ MapSpan(i1, j1, size, offset + 1)

RECURSIVE SeedMapping(_)
\* mapping after the loop over the opcodes
SeedMapping(opcodes) ==
    IF opcodes = << >> THEN << >>
    ELSE LET op == Head(opcodes)
         IN  (IF op[1] = "equal"
              THEN MapSpan(op[2], op[4], op[3] - op[2], 0) ELSE << >>)
             @@ SeedMapping(Tail(opcodes))

RECURSIVE DeletionIndices(_)
DeletionIndices(opcodes) ==
    IF opcodes = << >> THEN << >>
    ELSE LET op == Head(opcodes)
         IN  (IF op[1] \in {"delete", "replace"} /\ op[2] # op[3]
              THEN Range(op[2], op[3]) ELSE << >>)
             \o DeletionIndices(Tail(opcodes))

RECURSIVE AdditionIndices_WithEqual(_)
\* AdditionIndices that takes the new lines of the equal spans too
AdditionIndices_WithEqual(opcodes) ==
    IF opcodes = << >> THEN << >>
    ELSE LET op == Head(opcodes)
         IN  (IF op[4] # op[5] THEN Range(op[4], op[5]) ELSE << >>)
             \o AdditionIndices_WithEqual(Tail(opcodes))

RECURSIVE AdditionIndices(_)
AdditionIndices(opcodes) ==
    IF opcodes = << >> THEN << >>
    ELSE LET op == Head(opcodes)
         IN  (IF op[1] \in {"insert", "replace"} /\ op[4] # op[5]
              THEN Range(op[4], op[5]) ELSE << >>)
             \o AdditionIndices(Tail(opcodes))

(***************************************************************************)
(* The state of one run of main: lhdiff on old_lines and new_lines, then   *)
(* the unmatched report.                                                   *)
(***************************************************************************)
VARIABLES
    old_lines, new_lines,       \* the inputs
    config,                     \* the module constants and defaults in force
    hash_key,                   \* the key of the builtin hash in this run
    pc,                         \* where the run is
    old_norm, new_norm,
    mapping,                    \* old index -> list of new indices
    deletion_indices, addition_indices,
    old_content_hash, old_context_hash,
    new_content_hash, new_context_hash,
    old_ctx_vecs, new_ctx_vecs,
    new_line_owner,             \* new index -> <<old index, score>>
    di,                         \* position of the loop over deletion_indices
    i_cur, best_j, best_score,  \* locals of the current iteration
    split_indices, sp, final_new_indices,
    claim_kind,                 \* history: new index -> how its owner got it
    events,                     \* history: the contended claims so far
    deletions, additions        \* the unmatched report of main

(***************************************************************************)
(* The state of one run of ldiff of src/ldiff/normalized_ldiff.py, the     *)
(* variant that pairs deletion ranges with addition ranges.                *)
(***************************************************************************)
VARIABLES
    ld_old_lines, ld_new_lines, \* the inputs of ldiff
    ld_pc,                      \* where the run of ldiff is
    ld_mapping,                 \* old index -> new index
    deletion_ranges, addition_ranges,
    ld_d, ld_a                  \* positions of the loops of lines 181, 183

RangeVars ==
    << ld_old_lines, ld_new_lines, ld_pc, ld_mapping, deletion_ranges,
       addition_ranges, ld_d, ld_a >>

(***************************************************************************)
(* The state of one run of compute_mapping of src/LHDiff.py, the variant   *)
(* with a structural-token term, a neighbour split and a neighbour merge.  *)
(***************************************************************************)
VARIABLES
    st_old_lines, st_new_lines, \* the inputs of compute_mapping
    st_pc,                      \* where the run of compute_mapping is
    pre_old, pre_new,
    unchanged,                  \* old index -> new index, of find_unchanged
    pairs,                      \* the sorted list of <<score, i, j>>
    st_mapping,                 \* old index -> set of new indices
    st_i,                       \* position of the loops of lines 232, 245
    final                       \* 1-based old index -> sorted 1-based list

StructVars ==
    << st_old_lines, st_new_lines, st_pc, pre_old, pre_new, unchanged,
       pairs, st_mapping, st_i, final >>

(***************************************************************************)
(* The state of one call of a function of the engine on arguments of its   *)
(* own: normalized_levenshtein on two strings, simhash on a token list.    *)
(***************************************************************************)
VARIABLES
    call_fn,                    \* the function called
    call_args,                  \* its arguments
    call_pc,                    \* where the call is
    call_i,                     \* the position of its outer loop
    call_acc,                   \* prev of normalized_levenshtein, v of simhash
    call_result                 \* what it returned

CallVars == <<call_fn, call_args, call_pc, call_i, call_acc, call_result>>

\* the state of the variants of the engine and of the single calls
Variants == <<RangeVars, StructVars, CallVars>>

vars ==
    << Variants, old_lines, new_lines, config, hash_key, pc, old_norm, new_norm, mapping,
       deletion_indices, addition_indices, old_content_hash,
       old_context_hash, new_content_hash, new_context_hash, old_ctx_vecs,
       new_ctx_vecs, new_line_owner, di, i_cur, best_j, best_score,
       split_indices, sp, final_new_indices, claim_kind, events,
       deletions, additions >>

None == 0 - 1

\* the constants of lines 9-12 as the file sets them
DefaultConfig ==
    [ K     |-> CANDIDATES_PER_LINE,
      B     |-> SIMHASH_BITS,
      main  |-> MAIN_SIM_THRESHOLD,
      split |-> SPLIT_SIM_THRESHOLD ]

\* no run of ldiff
RangeIdle ==
    /\ ld_old_lines = << >>
    /\ ld_new_lines = << >>
    /\ ld_pc = "idle"
    /\ ld_mapping = << >>
    /\ deletion_ranges = << >>
    /\ addition_ranges = << >>
    /\ ld_d = 0
    /\ ld_a = 0

\* nothing computed yet by compute_mapping
StructCleared ==
    /\ pre_old = << >>
    /\ pre_new = << >>
    /\ unchanged = << >>
    /\ pairs = << >>
    /\ st_mapping = << >>
    /\ st_i = 0
    /\ final = << >>

\* no run of compute_mapping
StructIdle ==
    /\ st_old_lines = << >>
    /\ st_new_lines = << >>
    /\ st_pc = "idle"
    /\ StructCleared

\* no call of a single function
CallIdle ==
    /\ call_fn = "none"
    /\ call_args = << >>
    /\ call_pc = "idle"
    /\ call_i = 0
    /\ call_acc = << >>
    /\ call_result = << >>

\* nothing computed yet by lhdiff
Cleared ==
    /\ old_norm = << >>
    /\ new_norm = << >>
    /\ mapping = << >>
    /\ deletion_indices = << >>
    /\ addition_indices = << >>
    /\ old_content_hash = << >>
    /\ old_context_hash = << >>
    /\ new_content_hash = << >>
    /\ new_context_hash = << >>
    /\ old_ctx_vecs = << >>
    /\ new_ctx_vecs = << >>
    /\ new_line_owner = << >>
    /\ di = 0
    /\ i_cur = None
    /\ best_j = None
    /\ best_score = 0
    /\ split_indices = << >>
    /\ sp = 0
    /\ final_new_indices = << >>
    /\ claim_kind = << >>
    /\ events = {}
    /\ deletions = << >>
    /\ additions = << >>

\* the state before lhdiff runs on given inputs
Start ==
    /\ RangeIdle
    /\ StructIdle
    /\ CallIdle
    /\ hash_key \in HashSeeds
    /\ pc = "start"
    /\ Cleared

\* no run of lhdiff
MainIdle ==
    /\ old_lines = << >>
    /\ new_lines = << >>
    /\ config = DefaultConfig
    /\ hash_key = 0
    /\ pc = "idle"
    /\ Cleared

Init ==
    /\ old_lines \in BoundedSeq(Vocabulary, MaxOld)
    /\ new_lines \in BoundedSeq(Vocabulary, MaxNew)
    /\ config = DefaultConfig
    /\ Start

\* xs with x inserted before position p (0-based)
InsertAt(xs, p, x) == SubSeq(xs, 1, p) \o <<x>> \o SubSeq(xs, p + 1, Len(xs))

\* the runs in which new_lines is old_lines with one line inserted
InitInserted ==
    /\ old_lines \in BoundedSeq(Vocabulary, MaxOldInserted)
    /\ new_lines \in {InsertAt(old_lines, p, x) :
                         p \in 0..Len(old_lines), x \in Vocabulary}
    /\ config = DefaultConfig
    /\ Start

\* the runs on a new file of MaxNewSpan lines, long enough for a span of
\* three lines to be probed around a line that has an owner
InitSpan ==
    /\ old_lines \in BoundedSeq(Vocabulary, MaxOld)
    /\ new_lines \in [1..MaxNewSpan -> Vocabulary]
    /\ config = DefaultConfig
    /\ Start

\* Other settings of the constants of lines 9-12: non-positive candidate
\* counts and fingerprint widths, thresholds outside [0, 1].
Configs ==
    { [K |-> k, B |-> b, main |-> t[1], split |-> t[2]] :
        k \in {0 - 1, 0, CANDIDATES_PER_LINE},
        b \in {0 - 1, 0, SIMHASH_BITS},
        t \in { <<MAIN_SIM_THRESHOLD, SPLIT_SIM_THRESHOLD>>,
                <<(15 * ScoreOne) \div 10, 0 - (ScoreOne \div 10)>> } }

\* the runs of lhdiff under each of these settings
InitConfig ==
    /\ old_lines \in BoundedSeq(Vocabulary, MaxOldConfig)
    /\ new_lines \in BoundedSeq(Vocabulary, MaxNewConfig)
    /\ config \in Configs
    /\ Start

\* values of the parameter k of get_candidates_for_line (line 164) below the
\* number of insertion indices
SmallK == {1, 2}

\* the runs of lhdiff that ask for SmallK candidates per deletion
InitFewCandidates ==
    /\ old_lines \in BoundedSeq(Vocabulary, MaxOld)
    /\ new_lines \in BoundedSeq(Vocabulary, MaxNew)
    /\ config \in {[DefaultConfig EXCEPT !.K = k] : k \in SmallK}
    /\ Start

MaxOldTies == 2
MaxNewTies == 2

\* one-token lines: "aaba" is at the same edit distance from "aaa" and from
\* "aab"
TieVocabulary ==
    { <<"a", "a", "b", "a">>, <<"a", "a", "a">>, <<"a", "a", "b">> }

\* the runs of lhdiff on files of such lines
InitTies ==
    /\ old_lines \in BoundedSeq(TieVocabulary, MaxOldTies)
    /\ new_lines \in BoundedSeq(TieVocabulary, MaxNewTies)
    /\ config = DefaultConfig
    /\ Start

MaxOldPunct == 2
MaxNewPunct == 2

\* lines with an operator, with and without whitespace around it
PunctVocabulary ==
    { <<"a", "=", "b">>, <<"a", " ", "=", " ", "b">>, <<"A", " ", "b">>,
      <<" ", "a", "\t", " ", "b">> }

\* the runs of lhdiff on files of such lines
InitPunct ==
    /\ old_lines \in BoundedSeq(PunctVocabulary, MaxOldPunct)
    /\ new_lines \in BoundedSeq(PunctVocabulary, MaxNewPunct)
    /\ config = DefaultConfig
    /\ Start

Locals == <<i_cur, best_j, best_score, split_indices, sp, final_new_indices>>

Tables ==
    << old_content_hash, old_context_hash, new_content_hash,
       new_context_hash, old_ctx_vecs, new_ctx_vecs >>

Inputs == <<old_lines, new_lines, config, hash_key>>

Aligned == <<old_norm, new_norm, deletion_indices, addition_indices>>

Report == <<deletions, additions>>

\* not deletion_indices or not addition_indices, line 252
NothingToMatch(dels, adds) == dels = << >> \/ adds = << >>

\* Steps 1 and 2, lines 223-253: normalize, align, seed the mapping, and
\* return it when there is nothing left to match; otherwise step 3 and the
\* seeding of the ownership table, lines 256-269.
Prepare ==
    /\ pc = "start"
    /\ LET o_norm  == NormalizeAll(old_lines)
           n_norm  == NormalizeAll(new_lines)
           opcodes == get_opcodes(o_norm, n_norm)
           seeded  == SeedMapping(opcodes)
           dels    == DeletionIndices(opcodes)
           adds    == AdditionIndices(opcodes)
           o_sig   == build_line_signatures(o_norm, config.B, hash_key)
           n_sig   == build_line_signatures(n_norm, config.B, hash_key)
           owned   == {seeded[o][1] : o \in DOMAIN seeded}
       IN  /\ old_norm' = o_norm
           /\ new_norm' = n_norm
           /\ mapping' = seeded
           /\ deletion_indices' = dels
           /\ addition_indices' = adds
           /\ IF NothingToMatch(dels, adds)
              THEN /\ pc' = "returned"
                   /\ UNCHANGED <<Tables, new_line_owner, claim_kind>>
              ELSE /\ pc' = "loop"
                   /\ old_content_hash' = o_sig[1]
                   /\ old_context_hash' = o_sig[2]
                   /\ new_content_hash' = n_sig[1]
                   /\ new_context_hash' = n_sig[2]
                   /\ old_ctx_vecs' =
                        [k \in 1..Len(o_norm) |-> context_vector(o_norm, k - 1)]
                   /\ new_ctx_vecs' =
                        [k \in 1..Len(n_norm) |-> context_vector(n_norm, k - 1)]
                   /\ new_line_owner' =
                        [n \in owned |->
                            <<CHOOSE o \in DOMAIN seeded : seeded[o][1] = n,
                              ScoreOne>>]
                   /\ claim_kind' = [n \in owned |-> "seed"]
    /\ UNCHANGED <<Variants, Inputs, di, Locals, events, Report>>

\* combined for old line i and new line j in the current run
Score(i, j) == Combined(old_norm, new_norm, old_ctx_vecs, new_ctx_vecs, i, j)

RECURSIVE BestLoop(_, _, _, _)
\* the loop over the candidates, lines 298-311: <<best_j, best_score>>
BestLoop(candidates, i, bj, bs) ==
    IF candidates = << >> THEN <<bj, bs>>
    ELSE LET j == Head(candidates)
         IN  IF is_blank(At(new_norm, j))
             THEN BestLoop(Tail(candidates), i, bj, bs)
             ELSE IF Score(i, j) > bs
                  THEN BestLoop(Tail(candidates), i, j, Score(i, j))
                  ELSE BestLoop(Tail(candidates), i, bj, bs)

Candidates(i) ==
    get_candidates_for_line(i, addition_indices, old_content_hash,
                            old_context_hash, new_content_hash,
                            new_context_hash, config.K, config.B)

\* <<best_j, best_score>> for deletion i, lines 282-311
Best(i) == BestLoop(Candidates(i), i, None, 0)

\* OwnerKeeps the other way round: the lower claim takes the line
OwnerKeeps_Reversed(score, owner_score) == score >= owner_score

\* OwnerKeeps that lets every claim through
OwnerKeeps_Never(score, owner_score) == FALSE

\* OwnerKeeps with < for <=: a claim of equal score takes the line
OwnerKeeps_Strict(score, owner_score) == score < owner_score

\* best_score <= owner_score, line 320
OwnerKeeps(score, owner_score) == score <= owner_score

\* BelowSplitThreshold with the test left out
BelowSplitThreshold_Never(combined) == FALSE

\* combined < SPLIT_SIM_THRESHOLD, line 341
BelowSplitThreshold(combined) == combined < config.split

\* BelowMainThreshold without the comparison with the threshold
BelowMainThreshold_NoneOnly(bj, bs) == bj = None

\* best_j is None or best_score < MAIN_SIM_THRESHOLD, line 314
BelowMainThreshold(bj, bs) == bj = None \/ bs < config.main

\* hd_c / float(bits) of line 178 divides by zero: the iteration for
\* deletion i reaches get_candidates_for_line with bits = 0 (the loop of line
\* 272 runs only when addition_indices is not empty)
DividesByZero(i) ==
    /\ config.B = 0
    /\ i \notin DOMAIN mapping
    /\ ~is_blank(At(old_norm, i))

\* SkippedWith without the test of line 320: an owner never keeps its line
SkippedWith_OwnerIgnored(i, b) ==
    \/ i \in DOMAIN mapping
    \/ is_blank(At(old_norm, i))
    \/ Candidates(i) = << >>
    \/ BelowMainThreshold(b[1], b[2])

\* the conditions under which the iteration for deletion i ends at one of
\* the continues of lines 275-322; b is Best(i)
SkippedWith(i, b) ==
    \/ i \in DOMAIN mapping
    \/ is_blank(At(old_norm, i))
    \/ Candidates(i) = << >>
    \/ BelowMainThreshold(b[1], b[2])
    \/ /\ b[1] \in DOMAIN new_line_owner
       /\ OwnerKeeps(b[2], new_line_owner[b[1]][2])

\* Unmap with the removal left out: the previous owner keeps j
Unmap_KeepMapped(m, owner_old, j) == m

\* Unmap that drops the whole entry of the previous owner
Unmap_DropOwner(m, owner_old, j) ==
    IF owner_old \in DOMAIN m
    THEN [o \in DOMAIN m \ {owner_old} |-> m[o]]
    ELSE m

\* Unmap without lines 327-328: an emptied list stays in the mapping
Unmap_KeepEmptyKey(m, owner_old, j) ==
    IF owner_old \in DOMAIN m
    THEN [m EXCEPT ![owner_old] = SelectSeq(m[owner_old], LAMBDA k : k # j)]
    ELSE m

\* lines 325-328 and 352-355: j leaves the list of owner_old, and owner_old
\* leaves the mapping when its list becomes empty
Unmap(m, owner_old, j) ==
    IF owner_old \in DOMAIN m
    THEN LET rest == SelectSeq(m[owner_old], LAMBDA k : k # j)
         IN  IF rest = << >>
             THEN [o \in DOMAIN m \ {owner_old} |-> m[o]]
             ELSE [m EXCEPT ![owner_old] = rest]
    ELSE m

\* An iteration of the loop of line 272 that ends at one of its continues.
SkipDeletion ==
    /\ pc = "loop"
    /\ di < Len(deletion_indices)
    /\ LET i == At(deletion_indices, di)
           b == Best(i)
       IN  /\ ~DividesByZero(i)
           /\ SkippedWith(i, b)
           /\ events' =
                 IF /\ ~is_blank(At(old_norm, i))
                    /\ ~BelowMainThreshold(b[1], b[2])
                    /\ b[1] \in DOMAIN new_line_owner
                 THEN events \cup
                        {<<IF b[2] = new_line_owner[b[1]][2]
                           THEN "tie" ELSE "lost",
                           b[1], new_line_owner[b[1]][1], i>>}
                 ELSE events
    /\ di' = di + 1
    /\ UNCHANGED <<Variants, Inputs, pc, Aligned, mapping, Tables, new_line_owner,
                   Locals, claim_kind, Report>>

\* An iteration that reaches line 331: best_j is free or is taken from its
\* owner, and the span to probe is computed.
ClaimPrimary ==
    /\ pc = "loop"
    /\ di < Len(deletion_indices)
    /\ LET i  == At(deletion_indices, di)
           b  == Best(i)
           bj == b[1]
       IN  /\ ~DividesByZero(i)
           /\ ~SkippedWith(i, b)
           /\ i_cur' = i
           /\ best_j' = bj
           /\ best_score' = b[2]
           /\ mapping' = IF bj \in DOMAIN new_line_owner
                         THEN Unmap(mapping, new_line_owner[bj][1], bj)
                         ELSE mapping
           /\ split_indices' =
                 detect_line_split(i, bj, old_norm, new_norm, MAX_SPAN)
    /\ final_new_indices' = << >>
    /\ sp' = 0
    /\ pc' = "split"
    /\ UNCHANGED <<Variants, Inputs, Aligned, Tables, new_line_owner, di, claim_kind,
                   events, Report>>

\* One iteration of the loop of line 334 over split_indices.
SplitStep ==
    /\ pc = "split"
    /\ sp < Len(split_indices)
    /\ LET j        == At(split_indices, sp)
           combined == Score(i_cur, j)
           owned    == j \in DOMAIN new_line_owner
       IN  IF \/ BelowSplitThreshold(combined)
              \/ owned /\ OwnerKeeps(combined, new_line_owner[j][2])
           THEN /\ UNCHANGED <<mapping, final_new_indices, new_line_owner,
                                claim_kind>>
                /\ events' =
                      IF ~BelowSplitThreshold(combined)
                      THEN events \cup
                             {<<IF combined = new_line_owner[j][2]
                                THEN "tie" ELSE "lost",
                                j, new_line_owner[j][1], i_cur>>}
                      ELSE events
           ELSE /\ mapping' = IF owned
                              THEN Unmap(mapping, new_line_owner[j][1], j)
                              ELSE mapping
                /\ final_new_indices' = Append(final_new_indices, j)
                /\ new_line_owner' =
                      [n \in DOMAIN new_line_owner \cup {j} |->
                          IF n = j THEN <<i_cur, combined>>
                          ELSE new_line_owner[n]]
                /\ claim_kind' =
                      [n \in DOMAIN claim_kind \cup {j} |->
                          IF n = j
                          THEN (IF j = best_j THEN "primary" ELSE "split")
                          ELSE claim_kind[n]]
                /\ events' =
                      IF owned
                      THEN events \cup
                             {<<"steal", j, new_line_owner[j][1], i_cur>>}
                      ELSE events
    /\ sp' = sp + 1
    /\ UNCHANGED <<Variants, Inputs, pc, Aligned, Tables, di, i_cur, best_j, best_score,
                   split_indices, Report>>

RECURSIVE SortAsc(_)
\* sorted(indices), for distinct indices
SortAsc(indices) ==
    IF indices = << >> THEN << >>
    ELSE LET low == CHOOSE k \in 1..Len(indices) :
                       \A m \in 1..Len(indices) : indices[k] <= indices[m]
         IN  <<indices[low]>>
               \o SortAsc(SelectSeq(indices, LAMBDA x : x # indices[low]))

\* Lines 360-362, the end of the iteration.
StoreMapping ==
    /\ pc = "split"
    /\ sp = Len(split_indices)
    /\ mapping' = IF final_new_indices # << >>
                  THEN [o \in DOMAIN mapping \cup {i_cur} |->
                           IF o = i_cur THEN SortAsc(final_new_indices)
                           ELSE mapping[o]]
                  ELSE mapping
    /\ di' = di + 1
    /\ pc' = "loop"
    /\ UNCHANGED <<Variants, Inputs, Aligned, Tables, new_line_owner, Locals,
                   claim_kind, events, Report>>

\* Line 364.
Return ==
    /\ pc = "loop"
    /\ di = Len(deletion_indices)
    /\ pc' = "returned"
    /\ UNCHANGED <<Variants, Inputs, Aligned, mapping, Tables, new_line_owner, di,
                   Locals, claim_kind, events, Report>>

\* The unmatched report of main, lines 398-408.
ShowUnmatched ==
    /\ pc = "returned"
    /\ LET mapped_old == DOMAIN mapping
           mapped_new == UNION { {mapping[o][k] : k \in DOMAIN mapping[o]} :
                                 o \in DOMAIN mapping }
       IN  /\ deletions' = SelectSeq(Range(0, Len(old_lines)),
                                     LAMBDA i : i \notin mapped_old)
           /\ additions' = SelectSeq(Range(0, Len(new_lines)),
                                     LAMBDA j : j \notin mapped_new)
    /\ pc' = "reported"
    /\ UNCHANGED <<Variants, Inputs, Aligned, mapping, Tables, new_line_owner, di,
                   Locals, claim_kind, events>>

\* The ZeroDivisionError of line 178 leaves lhdiff: no relation is returned.
RaiseZeroDivision ==
    /\ pc = "loop"
    /\ di < Len(deletion_indices)
    /\ DividesByZero(At(deletion_indices, di))
    /\ pc' = "raised"
    /\ UNCHANGED <<Variants, Inputs, Aligned, mapping, Tables, new_line_owner, di,
                   Locals, claim_kind, events, Report>>

Next ==
    \/ Prepare
    \/ SkipDeletion
    \/ ClaimPrimary
    \/ SplitStep
    \/ StoreMapping
    \/ Return
    \/ ShowUnmatched

Spec == Init /\ [][Next]_vars

SpecSpan == InitSpan /\ [][Next]_vars

SpecFewCandidates == InitFewCandidates /\ [][Next]_vars

SpecTies == InitTies /\ [][Next]_vars

SpecPunct == InitPunct /\ [][Next]_vars

NextConfig ==
    \/ Next
    \/ RaiseZeroDivision

SpecConfig == InitConfig /\ [][NextConfig]_vars

SpecInserted == InitInserted /\ [][Next]_vars

(***************************************************************************)
(* ldiff of src/ldiff/normalized_ldiff.py.  Its normalized_levenshtein     *)
(* (lines 86-109) is the function of the same name above, and its          *)
(* alignment (lines 157-158) the same call of difflib, on the raw lines.   *)
(***************************************************************************)
\* the longest old and new file of the runs of ldiff
MaxOldRange == 3

MaxNewRange == 2

\* The raw lines the inputs of ldiff are drawn from.
RangeVocabulary ==
    { <<"c">>,
      <<"a", " ", "b">>,
      <<"a", " ", "c">>,
      <<"a", " ", "0">> }

\* lev_threshold = 0.4, as a fraction
LEV_THRESHOLD == <<4, 10>>

RECURSIVE tokenize_line_range(_)
tokenize_line_range(lines) ==
    IF lines = << >> THEN << >>
    ELSE tokenize(Head(lines)) \o tokenize_line_range(Tail(lines))

\* all_lines[start:end] for the range <<start, end>>
RangeLines(all_lines, range) == SubSeq(all_lines, range[1] + 1, range[2])

\* The keys of the vector of a range.  Every weight f * idf is positive:
\* df[t] <= N, so idf = log((N + 1) / (df[t] + 1)) + 1 >= 1.
VectorKeys(range, all_lines) ==
    LET tokens == tokenize_line_range(RangeLines(all_lines, range))
    IN  {tokens[k] : k \in DOMAIN tokens}

\* sim > cosine_threshold of line 186 with cosine_threshold = 0.0: with
\* positive weights the dot product is positive exactly when the two
\* vectors share a key
CosineAboveThreshold(d_keys, a_keys) == d_keys \cap a_keys # {}

\* The for loops of lines 129-139: the pair <<l, r, d>> of least distance;
\* of those the one of least l + r; of those the first met, l ascending and
\* then r ascending.  Distances of lines this short differ by far more than
\* 1e-9 when they differ.
ThinBest(sl, lend, sr, rend, o_lines, n_lines) ==
    LET found == {<<p[1], p[2],
                    normalized_levenshtein(At(o_lines, p[1]),
                                           At(n_lines, p[2]))>> :
                     p \in (sl..(lend - 1)) \X (sr..(rend - 1))}
    IN  CHOOSE x \in found :
            \A y \in found :
               \/ DistLess(x[3], y[3])
               \/ /\ ~DistLess(y[3], x[3])
                  /\ \/ x[1] + x[2] < y[1] + y[2]
                     \/ /\ x[1] + x[2] = y[1] + y[2]
                        /\ x[1] <= y[1]

RECURSIVE thin_change_relation(_, _, _, _, _, _, _)
\* the while loop of lines 125-146 from sl, sr on; m is mapping
thin_change_relation(sl, lend, sr, rend, o_lines, n_lines, m) ==
    IF ~(sl < lend /\ sr < rend) THEN m
    ELSE LET best == ThinBest(sl, lend, sr, rend, o_lines, n_lines)
         IN  IF ~DistLess(best[3], LEV_THRESHOLD) THEN m
             ELSE thin_change_relation(
                      best[1] + 1, lend, best[2] + 1, rend, o_lines, n_lines,
                      (best[1] :> best[2])
                        @@ [o \in DOMAIN m \ {best[1]} |-> m[o]])

RECURSIVE RangeSeed(_)
\* mapping after the loop of lines 165-168 over the equal opcodes
RangeSeed(opcodes) ==
    IF opcodes = << >> THEN << >>
    ELSE LET op == Head(opcodes)
         IN  (IF op[1] = "equal"
              THEN [i \in op[2]..(op[3] - 1) |-> op[4] + (i - op[2])]
              ELSE << >>)
             @@ RangeSeed(Tail(opcodes))

\* deletion_ranges of lines 170-171
DeletionRanges(opcodes) ==
    LET kept == SelectSeq(opcodes,
                          LAMBDA op : /\ op[1] \in {"delete", "replace"}
                                      /\ op[2] # op[3])
    IN  [k \in 1..Len(kept) |-> <<kept[k][2], kept[k][3]>>]

\* addition_ranges of lines 172-173
AdditionRanges(opcodes) ==
    LET kept == SelectSeq(opcodes,
                          LAMBDA op : /\ op[1] \in {"insert", "replace"}
                                      /\ op[4] # op[5])
    IN  [k \in 1..Len(kept) |-> <<kept[k][4], kept[k][5]>>]

InitRange ==
    /\ ld_old_lines \in BoundedSeq(RangeVocabulary, MaxOldRange)
    /\ ld_new_lines \in BoundedSeq(RangeVocabulary, MaxNewRange)
    /\ ld_pc = "start"
    /\ ld_mapping = << >>
    /\ deletion_ranges = << >>
    /\ addition_ranges = << >>
    /\ ld_d = 0
    /\ ld_a = 0
    /\ MainIdle
    /\ StructIdle
    /\ CallIdle

Main == <<Inputs, pc, Aligned, mapping, Tables, new_line_owner, di, Locals,
          claim_kind, events, Report>>

\* Lines 157-176: align, seed, collect the ranges, return when one side has
\* none.
RangeAlign ==
    /\ ld_pc = "start"
    /\ LET opcodes == get_opcodes(ld_old_lines, ld_new_lines)
           dels    == DeletionRanges(opcodes)
           adds    == AdditionRanges(opcodes)
       IN  /\ ld_mapping' = RangeSeed(opcodes)
           /\ deletion_ranges' = dels
           /\ addition_ranges' = adds
           /\ ld_pc' = IF dels = << >> \/ adds = << >>
                       THEN "returned" ELSE "pairs"
    /\ UNCHANGED <<ld_old_lines, ld_new_lines, ld_d, ld_a, Main, StructVars, CallVars>>

\* One iteration of the inner loop of line 183: the pair of the deletion
\* range at ld_d and the addition range at ld_a.
RangePair ==
    /\ ld_pc = "pairs"
    /\ ld_d < Len(deletion_ranges)
    /\ LET d_range == At(deletion_ranges, ld_d)
           a_range == At(addition_ranges, ld_a)
       IN  ld_mapping' =
              IF CosineAboveThreshold(VectorKeys(d_range, ld_old_lines),
                                      VectorKeys(a_range, ld_new_lines))
              THEN thin_change_relation(d_range[1], d_range[2], a_range[1],
                                        a_range[2], ld_old_lines,
                                        ld_new_lines, ld_mapping)
              ELSE ld_mapping
    /\ IF ld_a + 1 < Len(addition_ranges)
       THEN ld_a' = ld_a + 1 /\ ld_d' = ld_d
       ELSE ld_a' = 0 /\ ld_d' = ld_d + 1
    /\ UNCHANGED <<ld_old_lines, ld_new_lines, ld_pc, deletion_ranges,
                   addition_ranges, Main, StructVars, CallVars>>

\* Line 196.
RangeReturn ==
    /\ ld_pc = "pairs"
    /\ ld_d = Len(deletion_ranges)
    /\ ld_pc' = "returned"
    /\ UNCHANGED <<ld_old_lines, ld_new_lines, ld_mapping, deletion_ranges,
                   addition_ranges, ld_d, ld_a, Main, StructVars, CallVars>>

NextRange ==
    \/ RangeAlign
    \/ RangePair
    \/ RangeReturn

SpecRange == InitRange /\ [][NextRange]_vars

(***************************************************************************)
(* compute_mapping of src/LHDiff.py.  Its levenshtein is the two-row       *)
(* recurrence of LevRows, its simhash and hamming the functions modelled   *)
(* above, its alignment the same call of difflib.                          *)
(***************************************************************************)
\* the longest old and new file of the runs of compute_mapping
MaxOldStruct == 2

MaxNewStruct == 2

\* The raw lines the inputs of compute_mapping are drawn from.
StructVocabulary ==
    { << >>,
      <<"{", "\n">>,
      <<"{", " ", " ", "}">>,
      <<"}", ";">>,
      <<"A", "\n">> }

K_CANDIDATES == 15

STRUCT_WINDOW == 4

SIM_THRESHOLD == (35 * ScoreOne) \div 100

SPLIT_THRESHOLD == (65 * ScoreOne) \div 100

MERGE_THRESHOLD == (65 * ScoreOne) \div 100

\* the characters of string.punctuation other than { and }
StructPunct == Punct \cup {";", ":", ".", "!", "#", "_"}

\* the characters the pattern [^a-z0-9_]+ does not split at
StructWord == {"a", "b", "c", "0", "1", "_"}

RECURSIVE RStripNewline(_)
RStripNewline(s) ==
    IF s # << >> /\ s[Len(s)] = "\n"
    THEN RStripNewline(SubSeq(s, 1, Len(s) - 1))
    ELSE s

preprocess_line(line) ==
    Strip(CollapseWs(SelectSeq(Lower(RStripNewline(line)),
                               LAMBDA c : c \notin StructPunct)))

RECURSIVE preprocess_file(_)
preprocess_file(lines) ==
    IF lines = << >> THEN << >>
    ELSE <<preprocess_line(Head(lines))>> \o preprocess_file(Tail(lines))

is_blank_pre(line) == line = << >>

\* Line 41 reads KEYWORDS, a name the file never binds: structural_tokens
\* raises NameError at the first non-empty piece of the line, that is, for
\* every line that holds a character of a-z, 0-9 or _.
RaisesNameError(line) == \E k \in DOMAIN line : line[k] \in StructWord

\* structural_tokens(line) when it returns: no piece of the line reached
\* line 41, so the list is empty
structural_tokens(line) == << >>

structural_string(line) == Join(structural_tokens(line))

RECURSIVE ContextBefore(_, _, _)
\* the loop of lines 60-64, from j down
ContextBefore(pre_lines, j, cnt) ==
    IF ~(j >= 0 /\ cnt < STRUCT_WINDOW) THEN << >>
    ELSE IF ~is_blank_pre(At(pre_lines, j))
         THEN <<At(pre_lines, j)>> \o ContextBefore(pre_lines, j - 1, cnt + 1)
         ELSE ContextBefore(pre_lines, j - 1, cnt)

RECURSIVE ContextAfter(_, _, _)
\* the loop of lines 68-72, from j up
ContextAfter(pre_lines, j, cnt) ==
    IF ~(j < Len(pre_lines) /\ cnt < STRUCT_WINDOW) THEN << >>
    ELSE IF ~is_blank_pre(At(pre_lines, j))
         THEN <<At(pre_lines, j)>> \o ContextAfter(pre_lines, j + 1, cnt + 1)
         ELSE ContextAfter(pre_lines, j + 1, cnt)

build_context(pre_lines, idx) ==
    Join(ContextBefore(pre_lines, idx - 1, 0)
           \o ContextAfter(pre_lines, idx + 1, 0))

levenshtein(a, b) ==
    IF a = b THEN 0
    ELSE IF a = << >> THEN Len(b)
    ELSE IF b = << >> THEN Len(a)
    ELSE LevRows(a, b, 1, [j \in 1..(Len(b) + 1) |-> j - 1])[Len(b) + 1]

\* the similarity 1.0 - d / m, as the fraction <<m - d, m>>
norm_lev(a, b) ==
    IF a = << >> /\ b = << >> THEN <<1, 1>>
    ELSE IF a = << >> \/ b = << >> THEN <<0, 1>>
    ELSE LET m == Max(Len(a), Len(b))
         IN  <<m - levenshtein(a, b), m>>

RECURSIVE SplitScan(_, _)
\* str.split(): the maximal runs of characters that are not whitespace
SplitScan(s, word) ==
    IF s = << >>
    THEN IF word # << >> THEN <<word>> ELSE << >>
    ELSE IF Head(s) \notin Whitespace
         THEN SplitScan(Tail(s), Append(word, Head(s)))
         ELSE (IF word # << >> THEN <<word>> ELSE << >>)
              \o SplitScan(Tail(s), << >>)

\* cosine of lines 111-123, in thousandths
cosine(a, b) ==
    IF a = << >> /\ b = << >> THEN ScoreOne \div 10
    ELSE IF a = << >> \/ b = << >> THEN 0
    ELSE cosine_similarity(Counter(SplitScan(a, << >>)),
                           Counter(SplitScan(b, << >>)))

\* 0.5 * norm_lev(ca, cb) + 0.3 * norm_lev(sa, sb) + 0.2 * cosine(xa, xb)
combined(ca, cb, sa, sb, xa, xb) ==
    LET unit == ScoreOne \div 10
        c    == norm_lev(ca, cb)
        t    == norm_lev(sa, sb)
    IN  (5 * unit * c[1]) \div c[2] + (3 * unit * t[1]) \div t[2]
          + 2 * cosine(xa, xb)

\* combined for old line i and new line j of preprocessed files
StructScore(p_old, p_new, i, j) ==
    combined(At(p_old, i), At(p_new, j),
             structural_string(At(p_old, i)), structural_string(At(p_new, j)),
             build_context(p_old, i), build_context(p_new, j))

RECURSIVE find_unchanged(_, _, _)
\* the loop of lines 160-167 over the opcodes
find_unchanged(opcodes, p_old, p_new) ==
    IF opcodes = << >> THEN << >>
    ELSE LET op   == Head(opcodes)
             kept == IF op[1] # "equal" THEN {}
                     ELSE {oi \in op[2]..(op[3] - 1) :
                             /\ ~is_blank_pre(At(p_old, oi))
                             /\ ~is_blank_pre(At(p_new, op[4] + oi - op[2]))}
         IN  [oi \in kept |-> op[4] + oi - op[2]]
               @@ find_unchanged(Tail(opcodes), p_old, p_new)

\* simhash(structural_tokens(s)) of lines 186-187
StructHash(line) == simhash(structural_tokens(line), SIMHASH_BITS, hash_key)

RECURSIVE SortTriplesDesc(_)
\* list.sort(reverse=True) on tuples of numbers: descending, compared
\* element by element
SortTriplesDesc(S) ==
    IF S = {} THEN << >>
    ELSE LET top == CHOOSE x \in S :
                       \A y \in S :
                          \/ x = y
                          \/ x[1] > y[1]
                          \/ x[1] = y[1] /\ x[2] > y[2]
                          \/ x[1] = y[1] /\ x[2] = y[2] /\ x[3] > y[3]
         IN  <<top>> \o SortTriplesDesc(S \ {top})

\* sims[:K_CANDIDATES] of lines 198-210 for old line i, as triples
\* <<similarity times SIMHASH_BITS, j, j>>
StructCandidates(p_old, p_new, used_new, i) ==
    LET free   == {j \in 0..(Len(p_new) - 1) :
                      j \notin used_new /\ ~is_blank_pre(At(p_new, j))}
        sims   == {<<SIMHASH_BITS
                       - hamming_distance(StructHash(At(p_old, i)),
                                          StructHash(At(p_new, j))), j, j>> :
                      j \in free}
        sorted == SortTriplesDesc(sims)
    IN  SubSeq(sorted, 1, Min(K_CANDIDATES, Len(sorted)))

\* pairs after the sort of line 216
SortedPairs(p_old, p_new, used_old, used_new) ==
    LET olds  == {i \in 0..(Len(p_old) - 1) :
                     i \notin used_old /\ ~is_blank_pre(At(p_old, i))}
        cands == [i \in olds |->
                     StructCandidates(p_old, p_new, used_new, i)]
    IN  SortTriplesDesc(
            UNION { {<<StructScore(p_old, p_new, i, cands[i][k][2]), i,
                       cands[i][k][2]>> : k \in DOMAIN cands[i]} :
                    i \in olds })

RECURSIVE AssignPrimary(_, _, _, _)
\* the loop of lines 219-226 over the rest of pairs
AssignPrimary(rest, primary, used_old, used_new) ==
    IF rest = << >> THEN primary
    ELSE LET score == Head(rest)[1]
             i     == Head(rest)[2]
             j     == Head(rest)[3]
         IN  IF score < SIM_THRESHOLD THEN primary
             ELSE IF i \in used_old \/ j \in used_new
                  THEN AssignPrimary(Tail(rest), primary, used_old, used_new)
                  ELSE AssignPrimary(Tail(rest), (i :> j) @@ primary,
                                     used_old \cup {i}, used_new \cup {j})

MinOf(S) == CHOOSE x \in S : \A y \in S : x <= y

RECURSIVE SortedList(_)
\* sorted(S)
SortedList(S) ==
    IF S = {} THEN << >>
    ELSE <<MinOf(S)>> \o SortedList(S \ {MinOf(S)})

InitStruct ==
    /\ st_old_lines \in BoundedSeq(StructVocabulary, MaxOldStruct)
    /\ st_new_lines \in BoundedSeq(StructVocabulary, MaxNewStruct)
    /\ st_pc = "start"
    /\ StructCleared
    /\ MainIdle
    /\ RangeIdle
    /\ CallIdle

\* Lines 181-182 raise NameError for a file with a line that holds a word
\* character: compute_mapping returns nothing.
StructRaise ==
    /\ st_pc = "start"
    /\ \E line \in StructVocabulary :
          /\ \E n \in DOMAIN (st_old_lines \o st_new_lines) :
                (st_old_lines \o st_new_lines)[n] = line
          /\ RaisesNameError(preprocess_line(line))
    /\ st_pc' = "raised"
    /\ UNCHANGED <<st_old_lines, st_new_lines, pre_old, pre_new, unchanged,
                   pairs, st_mapping, st_i, final, Main, RangeVars, CallVars>>

\* Lines 172-216: preprocess, find the unchanged lines, score and sort the
\* candidate pairs.
StructPrepare ==
    /\ st_pc = "start"
    /\ LET p_old == preprocess_file(st_old_lines)
           p_new == preprocess_file(st_new_lines)
           same  == find_unchanged(get_opcodes(p_old, p_new), p_old, p_new)
       IN  /\ \A k \in DOMAIN p_old : ~RaisesNameError(p_old[k])
           /\ \A k \in DOMAIN p_new : ~RaisesNameError(p_new[k])
           /\ pre_old' = p_old
           /\ pre_new' = p_new
           /\ unchanged' = same
           /\ pairs' = SortedPairs(p_old, p_new, DOMAIN same,
                                   {same[i] : i \in DOMAIN same})
    /\ st_pc' = "assign"
    /\ UNCHANGED <<st_old_lines, st_new_lines, st_mapping, st_i, final, Main,
                   RangeVars, CallVars>>

\* Lines 217-230: the primary assignment, best pairs first.
StructAssign ==
    /\ st_pc = "assign"
    /\ LET primary == AssignPrimary(pairs, unchanged, DOMAIN unchanged,
                                    {unchanged[i] : i \in DOMAIN unchanged})
       IN  st_mapping' =
              [i \in 0..(Len(pre_old) - 1) |->
                  IF i \in DOMAIN primary THEN {primary[i]} ELSE {}]
    /\ st_i' = 0
    /\ st_pc' = "split"
    /\ UNCHANGED <<st_old_lines, st_new_lines, pre_old, pre_new, unchanged,
                   pairs, final, Main, RangeVars, CallVars>>

\* One iteration of the loop of line 232: old line st_i takes the
\* neighbours of its first new line that score SPLIT_THRESHOLD or more.
StructSplit ==
    /\ st_pc = "split"
    /\ st_i < Len(pre_old)
    /\ LET i == st_i
       IN  IF st_mapping[i] = {} \/ is_blank_pre(At(pre_old, i))
           THEN UNCHANGED st_mapping
           ELSE LET j0 == MinOf(st_mapping[i])
                    ks == {k \in {j0 - 1, j0 + 1} :
                             /\ 0 <= k /\ k < Len(pre_new)
                             /\ k \notin st_mapping[i]
                             /\ ~is_blank_pre(At(pre_new, k))
                             /\ StructScore(pre_old, pre_new, i, k)
                                   >= SPLIT_THRESHOLD}
                IN  st_mapping' =
                       [st_mapping EXCEPT ![i] = st_mapping[i] \cup ks]
    /\ st_i' = st_i + 1
    /\ UNCHANGED <<st_old_lines, st_new_lines, st_pc, pre_old, pre_new,
                   unchanged, pairs, final, Main, RangeVars, CallVars>>

\* The loop of line 232 is over, the loop of line 245 starts.
StructSplitDone ==
    /\ st_pc = "split"
    /\ st_i = Len(pre_old)
    /\ st_i' = 0
    /\ st_pc' = "merge"
    /\ UNCHANGED <<st_old_lines, st_new_lines, pre_old, pre_new, unchanged,
                   pairs, st_mapping, final, Main, RangeVars, CallVars>>

\* One iteration of the loop of line 245: the unmatched neighbours of old
\* line st_i that score MERGE_THRESHOLD or more with its first new line
\* are mapped to that line too.
StructMerge ==
    /\ st_pc = "merge"
    /\ st_i < Len(pre_old)
    /\ LET i == st_i
       IN  IF st_mapping[i] = {} \/ is_blank_pre(At(pre_old, i))
           THEN UNCHANGED st_mapping
           ELSE LET j0  == MinOf(st_mapping[i])
                    nbs == {nb \in {i - 1, i + 1} :
                              /\ ~(nb < 0 \/ nb >= Len(pre_old))
                              /\ ~(st_mapping[nb] # {}
                                     \/ is_blank_pre(At(pre_old, nb)))
                              /\ StructScore(pre_old, pre_new, nb, j0)
                                    >= MERGE_THRESHOLD}
                IN  st_mapping' =
                       [nb \in DOMAIN st_mapping |->
                           IF nb \in nbs THEN st_mapping[nb] \cup {j0}
                           ELSE st_mapping[nb]]
    /\ st_i' = st_i + 1
    /\ UNCHANGED <<st_old_lines, st_new_lines, st_pc, pre_old, pre_new,
                   unchanged, pairs, final, Main, RangeVars, CallVars>>

\* Lines 261-264.
StructReturn ==
    /\ st_pc = "merge"
    /\ st_i = Len(pre_old)
    /\ final' = [n \in 1..Len(pre_old) |->
                    SortedList({j + 1 : j \in st_mapping[n - 1]})]
    /\ st_pc' = "returned"
    /\ UNCHANGED <<st_old_lines, st_new_lines, pre_old, pre_new, unchanged,
                   pairs, st_mapping, st_i, Main, RangeVars, CallVars>>

NextStruct ==
    \/ StructRaise
    \/ StructPrepare
    \/ StructAssign
    \/ StructSplit
    \/ StructSplitDone
    \/ StructMerge
    \/ StructReturn

SpecStruct == InitStruct /\ [][NextStruct]_vars

(***************************************************************************)
(* One call of normalized_levenshtein (src/ldiff/LHDiff.py lines 84-117)   *)
(* on two strings, one row of the table at a time.                         *)
(***************************************************************************)
MaxLevLen == 3

LevAlphabet == {"a", "b"}

InitLev ==
    /\ call_fn = "normalized_levenshtein"
    /\ call_args \in BoundedSeq(LevAlphabet, MaxLevLen)
                        \X BoundedSeq(LevAlphabet, MaxLevLen)
    /\ call_pc = "called"
    /\ call_i = 0
    /\ call_acc = << >>
    /\ call_result = << >>
    /\ MainIdle
    /\ RangeIdle
    /\ StructIdle

\* Lines 94-97: the two early returns.
LevEarlyReturn ==
    /\ call_fn = "normalized_levenshtein"
    /\ call_pc = "called"
    /\ LET s1 == call_args[1]
           s2 == call_args[2]
       IN  /\ s1 = s2 \/ s1 = << >> \/ s2 = << >>
           /\ call_result' = IF s1 = s2 THEN <<0, 1>> ELSE <<1, 1>>
    /\ call_pc' = "returned"
    /\ UNCHANGED <<call_fn, call_args, call_i, call_acc, Main, RangeVars,
                   StructVars>>

\* Lines 99-102: prev = list(range(len2 + 1)).
LevFirstRow ==
    /\ call_fn = "normalized_levenshtein"
    /\ call_pc = "called"
    /\ LET s1 == call_args[1]
           s2 == call_args[2]
       IN  /\ ~(s1 = s2 \/ s1 = << >> \/ s2 = << >>)
           /\ call_acc' = Range(0, Len(s2) + 1)
    /\ call_i' = 1
    /\ call_pc' = "rows"
    /\ UNCHANGED <<call_fn, call_args, call_result, Main, RangeVars,
                   StructVars>>

\* One iteration of the loop of line 104: the row of s1[i - 1] is computed
\* and becomes prev.
LevNextRow ==
    /\ call_fn = "normalized_levenshtein"
    /\ call_pc = "rows"
    /\ call_i <= Len(call_args[1])
    /\ call_acc' = LevRow(call_acc, call_args[1][call_i], call_args[2],
                          <<call_i>>)
    /\ call_i' = call_i + 1
    /\ UNCHANGED <<call_fn, call_args, call_pc, call_result, Main, RangeVars,
                   StructVars>>

\* Lines 116-117.
LevReturn ==
    /\ call_fn = "normalized_levenshtein"
    /\ call_pc = "rows"
    /\ call_i > Len(call_args[1])
    /\ call_result' = <<call_acc[Len(call_args[2]) + 1],
                        Max(Len(call_args[1]), Len(call_args[2]))>>
    /\ call_pc' = "returned"
    /\ UNCHANGED <<call_fn, call_args, call_i, call_acc, Main, RangeVars,
                   StructVars>>

NextLev ==
    \/ LevEarlyReturn
    \/ LevFirstRow
    \/ LevNextRow
    \/ LevReturn

SpecLev == InitLev /\ [][NextLev]_vars

(***************************************************************************)
(* One call of simhash (src/ldiff/LHDiff.py lines 119-132) on a token      *)
(* list, one token at a time.  call_args is <<tokens, bits, key>>, key     *)
(* being the key of the token hash of the process.                         *)
(***************************************************************************)
MaxTokens == 3

TokenVocabulary == { <<"a">>, <<"b">>, <<"a", "b">> }

InitSimhash ==
    /\ call_fn = "simhash"
    /\ call_args \in BoundedSeq(TokenVocabulary, MaxTokens)
                        \X {SIMHASH_BITS} \X HashSeeds
    /\ call_pc = "called"
    /\ call_i = 0
    /\ call_acc = << >>
    /\ call_result = << >>
    /\ MainIdle
    /\ RangeIdle
    /\ StructIdle

\* Lines 120-121: no token, the fingerprint is 0.
SimhashEmpty ==
    /\ call_fn = "simhash"
    /\ call_pc = "called"
    /\ call_args[1] = << >>
    /\ call_result' = {}
    /\ call_pc' = "returned"
    /\ UNCHANGED <<call_fn, call_args, call_i, call_acc, Main, RangeVars,
                   StructVars>>

\* Line 122: v = [0] * bits.
SimhashCounters ==
    /\ call_fn = "simhash"
    /\ call_pc = "called"
    /\ call_args[1] # << >>
    /\ call_acc' = [i \in 1..call_args[2] |-> 0]
    /\ call_i' = 1
    /\ call_pc' = "tokens"
    /\ UNCHANGED <<call_fn, call_args, call_result, Main, RangeVars,
                   StructVars>>

\* One iteration of the loop of line 123: every counter moves by one, up
\* for a 1 bit of hash(token) and down for a 0 bit.
SimhashToken ==
    /\ call_fn = "simhash"
    /\ call_pc = "tokens"
    /\ call_i <= Len(call_args[1])
    /\ LET h == hash(call_args[1][call_i], call_args[3])
       IN  call_acc' = [i \in 1..call_args[2] |->
                           call_acc[i]
                              + (IF HashBit(h, i - 1) = 1 THEN 1 ELSE -1)]
    /\ call_i' = call_i + 1
    /\ UNCHANGED <<call_fn, call_args, call_pc, call_result, Main, RangeVars,
                   StructVars>>

\* Lines 128-132: the bits whose counter is positive.
SimhashReturn ==
    /\ call_fn = "simhash"
    /\ call_pc = "tokens"
    /\ call_i > Len(call_args[1])
    /\ call_result' = {i \in 0..(call_args[2] - 1) : call_acc[i + 1] > 0}
    /\ call_pc' = "returned"
    /\ UNCHANGED <<call_fn, call_args, call_i, call_acc, Main, RangeVars,
                   StructVars>>

NextSimhash ==
    \/ SimhashEmpty
    \/ SimhashCounters
    \/ SimhashToken
    \/ SimhashReturn

SpecSimhash == InitSimhash /\ [][NextSimhash]_vars

(***************************************************************************)
(* One call of best_line_map (src/BEST/best.py lines 11-32), one old line  *)
(* at a time.  call_args is <<old_lines, new_lines, threshold, monotone>>, *)
(* call_acc holds the locals mapping, j_start and used, and a similarity   *)
(* or a threshold is a fraction <<numerator, denominator>>.                *)
(***************************************************************************)
MaxOldBest == 2

MaxNewBest == 3

BestVocabulary == { <<"a", "b">>, <<"A", "c", " ">>, <<"a", "b", "c">> }

\* the default of line 11 and two values of --threshold, 0 among them
BestThresholds == { <<0, 1>>, <<1, 2>>, <<3, 4>> }

\* x >= y for two fractions
FracGeq(x, y) == x[1] * y[2] >= y[1] * x[2]

\* x > y for two fractions
FracGt(x, y) == x[1] * y[2] > y[1] * x[2]

\* Lines 5-6.
norm(s) == CollapseWs(Lower(Strip(s)))

RECURSIVE BlockSizes(_)
\* the sum of the sizes of the matching blocks
BlockSizes(blocks) ==
    IF blocks = << >> THEN 0
    ELSE Head(blocks)[3] + BlockSizes(Tail(blocks))

\* SequenceMatcher.ratio(): 2.0 * matches / (len(a) + len(b)), and 1.0 for
\* two empty sequences
ratio(a, b) ==
    IF Len(a) + Len(b) = 0 THEN <<1, 1>>
    ELSE <<2 * BlockSizes(MatchingBlocks(a, b, 0, Len(a), 0, Len(b))),
           Len(a) + Len(b)>>

\* Lines 8-9.
sim(a, b) == ratio(norm(a), norm(b))

\* round(s, 3) in thousandths; no similarity of two lines of the vocabulary
\* lies halfway between two thousandths
Round3(s) == (2000 * s[1] + s[2]) \div (2 * s[2])

\* range(0, len(new_lines)) whatever monotone is
rng_All(j_start, n, monotone) == Range(0, n)

\* Line 18.
rng(j_start, n, monotone) ==
    IF monotone THEN Range(j_start, n) ELSE Range(0, n)

RECURSIVE BestOver(_, _, _, _, _)
\* Lines 19-24: the loop over the sequence js of new-line indices, from the
\* pair best == <<best_j, best_s>>.
BestOver(old, new, js, used, best) ==
    IF js = << >> THEN best
    ELSE LET j == Head(js)
             s == sim(old, At(new, j))
         IN  BestOver(old, new, Tail(js), used,
                      IF j \notin used /\ FracGt(s, best[2])
                      THEN <<j, s>>
                      ELSE best)

\* Lines 17-24 for the old line i (1-based) in the state acc of the locals.
BestOf(args, acc, i) ==
    BestOver(args[1][i], args[2],
             rng(acc.j_start, Len(args[2]), args[4]), acc.used,
             <<None, <<0, 1>> >>)

InitBest ==
    /\ call_fn = "best_line_map"
    /\ call_args \in BoundedSeq(BestVocabulary, MaxOldBest)
                        \X BoundedSeq(BestVocabulary, MaxNewBest)
                        \X BestThresholds \X BOOLEAN
    /\ call_pc = "lines"
    /\ call_i = 1
    /\ call_acc = [mapping |-> << >>, j_start |-> 0, used |-> {}]
    /\ call_result = << >>
    /\ MainIdle
    /\ RangeIdle
    /\ StructIdle

\* Lines 25-29: the best unused new line reaches the threshold.
BestMatch ==
    /\ call_fn = "best_line_map"
    /\ call_pc = "lines"
    /\ call_i <= Len(call_args[1])
    /\ LET best == BestOf(call_args, call_acc, call_i)
       IN  /\ FracGeq(best[2], call_args[3])
           /\ call_acc' =
                 [mapping |-> Append(call_acc.mapping,
                                     <<call_i, best[1] + 1, Round3(best[2])>>),
                  used    |-> call_acc.used \cup {best[1]},
                  j_start |-> IF call_args[4] THEN best[1] + 1
                              ELSE call_acc.j_start]
    /\ call_i' = call_i + 1
    /\ UNCHANGED <<call_fn, call_args, call_pc, call_result, Main, RangeVars,
                   StructVars>>

\* Lines 30-31: no unused new line reaches the threshold.
BestDeleted ==
    /\ call_fn = "best_line_map"
    /\ call_pc = "lines"
    /\ call_i <= Len(call_args[1])
    /\ ~FracGeq(BestOf(call_args, call_acc, call_i)[2], call_args[3])
    /\ call_acc' = [call_acc EXCEPT
                       !.mapping = Append(@, <<call_i, -1, None>>)]
    /\ call_i' = call_i + 1
    /\ UNCHANGED <<call_fn, call_args, call_pc, call_result, Main, RangeVars,
                   StructVars>>

\* Line 32.
BestReturn ==
    /\ call_fn = "best_line_map"
    /\ call_pc = "lines"
    /\ call_i > Len(call_args[1])
    /\ call_result' = call_acc.mapping
    /\ call_pc' = "returned"
    /\ UNCHANGED <<call_fn, call_args, call_i, call_acc, Main, RangeVars,
                   StructVars>>

NextBest ==
    \/ BestMatch
    \/ BestDeleted
    \/ BestReturn

SpecBest == InitBest /\ [][NextBest]_vars

(***************************************************************************)
(* Vocabulary of the properties.                                           *)
(***************************************************************************)
OldIdx == 0..(Len(old_lines) - 1)

NewIdx == 0..(Len(new_lines) - 1)

\* the new indices in the list of old index i in the relation m
MappedIn(m, i) == IF i \in DOMAIN m THEN {m[i][k] : k \in DOMAIN m[i]} ELSE {}

Mapped(i) == MappedIn(mapping, i)

InSeq(s, x) == \E k \in DOMAIN s : s[k] = x

\* the fuzzy phase of lhdiff was entered in this run
FuzzyPhase == deletion_indices # << >> /\ addition_indices # << >>

Happened(kind) == \E e \in events : e[1] = kind

RECURSIVE IsSubseq(_, _)
\* ys is xs with elements inserted
IsSubseq(xs, ys) ==
    IF xs = << >> THEN TRUE
    ELSE IF ys = << >> THEN FALSE
    ELSE IF Head(xs) = Head(ys) THEN IsSubseq(Tail(xs), Tail(ys))
    ELSE IsSubseq(xs, Tail(ys))

(***************************************************************************)
(* C1.  No new-line index is in the mapped lists of two different old-line *)
(* indices: after seeding, after every processed deletion index, in the    *)
(* returned relation, and in between.                                      *)
(***************************************************************************)
C1_OwnershipExclusive ==
    \A i1 \in DOMAIN mapping : \A i2 \in DOMAIN mapping :
        i1 # i2 => Mapped(i1) \cap Mapped(i2) = {}

\* a returned relation of two or more old lines, after a line changed owner
C1_Witness ==
    /\ pc = "returned"
    /\ Happened("steal")
    /\ Cardinality(DOMAIN mapping) >= 2

(***************************************************************************)
(* C2.  In the fuzzy phase, once a deletion index has been fully           *)
(* processed, the relation and the ownership table agree: j is in          *)
(* mapping[i] exactly when new_line_owner[j] names i, so every claimed j   *)
(* has exactly one recorded owner.                                         *)
(***************************************************************************)
C2_RelationMatchesOwners ==
    (FuzzyPhase /\ pc \in {"loop", "returned", "reported"}) =>
        \A i \in OldIdx : \A j \in NewIdx :
            j \in Mapped(i) <=>
                (j \in DOMAIN new_line_owner /\ new_line_owner[j][1] = i)

\* a deletion has been processed that took one line of an owner of several
C2_Witness ==
    /\ pc = "loop"
    /\ \E e \in events :
          /\ e[1] = "steal"
          /\ e[3] \in DOMAIN mapping
          /\ e[4] \in DOMAIN mapping

(***************************************************************************)
(* C3.  The relation never keeps a key with an empty list, and in the      *)
(* final result every old index is either a key of the relation (with a    *)
(* non-empty list) or reported as an unmatched deletion, never both and    *)
(* never neither.                                                          *)
(***************************************************************************)
C3_Totality ==
    /\ \A i \in DOMAIN mapping : mapping[i] # << >>
    /\ pc = "reported" =>
          \A i \in OldIdx :
              (i \in DOMAIN mapping /\ mapping[i] # << >>)
                 # InSeq(deletions, i)

\* an old line that lost its only new line is reported unmatched, beside an
\* old line that is mapped
C3_Witness ==
    /\ pc = "reported"
    /\ DOMAIN mapping # {}
    /\ \E e \in events :
          /\ e[1] = "steal"
          /\ e[3] \notin DOMAIN mapping
          /\ InSeq(deletions, e[3])

(***************************************************************************)
(* C4.  No old line whose normalized text is empty is a key of the         *)
(* returned relation and no new line whose normalized text is empty is in  *)
(* a mapped list, seed matches and split extensions included.              *)
(***************************************************************************)
C4_BlankExclusion ==
    pc \in {"returned", "reported"} =>
        \A i \in DOMAIN mapping :
            /\ ~is_blank(At(old_norm, i))
            /\ \A j \in Mapped(i) : ~is_blank(At(new_norm, j))

(***************************************************************************)
(* C5.  Every fuzzy primary match (i, j) in the relation has combined      *)
(* score >= MAIN_SIM_THRESHOLD, and every index added to the list of i by  *)
(* split extension has combined score with i >= SPLIT_SIM_THRESHOLD.       *)
(***************************************************************************)
C5_ThresholdRespect ==
    \A i \in DOMAIN mapping : \A j \in Mapped(i) :
        j \in DOMAIN claim_kind =>
            /\ claim_kind[j] = "primary" => Score(i, j) >= MAIN_SIM_THRESHOLD
            /\ claim_kind[j] = "split" => Score(i, j) >= SPLIT_SIM_THRESHOLD

\* a returned list holds its primary match and a split extension whose score
\* lies between the two thresholds
C5_Witness ==
    /\ pc = "returned"
    /\ \E i \in DOMAIN mapping : \E j1 \in Mapped(i) : \E j2 \in Mapped(i) :
          /\ {j1, j2} \subseteq DOMAIN claim_kind
          /\ claim_kind[j1] = "primary"
          /\ claim_kind[j2] = "split"
          /\ Score(i, j2) < MAIN_SIM_THRESHOLD

(***************************************************************************)
(* C6.  Matching a non-empty sequence of lines against itself maps every   *)
(* old index i to exactly [i] and reports no unmatched deletion and no     *)
(* unmatched addition.                                                     *)
(***************************************************************************)
C6_Identity ==
    (pc = "reported" /\ old_lines = new_lines /\ old_lines # << >>) =>
        /\ DOMAIN mapping = OldIdx
        /\ \A i \in OldIdx : mapping[i] = <<i>>
        /\ deletions = << >>
        /\ additions = << >>

\* the report on a file of two different lines matched against itself
C6_Witness ==
    /\ pc = "reported"
    /\ old_lines = new_lines
    /\ Len(old_lines) >= 2
    /\ old_lines[1] # old_lines[2]

(***************************************************************************)
(* C7.  A deletion takes a new index j from its recorded owner only with a *)
(* combined score strictly greater than the recorded score, as primary     *)
(* match and as split extension alike; on an exact tie of the scores the   *)
(* earlier owner keeps j, and neither the relation nor the ownership table *)
(* changes.                                                                *)
(***************************************************************************)
\* the deletion at the head of the loop claims an owned line as primary match
\* with exactly the recorded score
PrimaryTie ==
    /\ pc = "loop"
    /\ di < Len(deletion_indices)
    /\ LET i == At(deletion_indices, di)
           b == Best(i)
       IN  /\ i \notin DOMAIN mapping
           /\ ~is_blank(At(old_norm, i))
           /\ b[1] # None
           /\ b[1] \in DOMAIN new_line_owner
           /\ b[2] = new_line_owner[b[1]][2]

\* the index probed by the split loop is owned with exactly the claim's score
SplitTie ==
    /\ pc = "split"
    /\ sp < Len(split_indices)
    /\ LET j == At(split_indices, sp)
       IN  /\ j \in DOMAIN new_line_owner
           /\ Score(i_cur, j) = new_line_owner[j][2]

C7_Step ==
    /\ \A j \in DOMAIN new_line_owner :
          /\ j \in DOMAIN new_line_owner'
          /\ new_line_owner'[j][1] # new_line_owner[j][1] =>
                new_line_owner'[j][2] > new_line_owner[j][2]
    /\ \A i \in DOMAIN mapping : \A j \in Mapped(i) :
          j \notin MappedIn(mapping', i) =>
             /\ j \in DOMAIN new_line_owner
             /\ new_line_owner[j][1] = i \/ pc = "split"
             /\ (IF pc = "loop" THEN best_score' ELSE Score(i_cur, j))
                   > new_line_owner[j][2]
    /\ (PrimaryTie \/ SplitTie) => UNCHANGED <<mapping, new_line_owner>>

C7_StrictlyGreaterWins == [][C7_Step]_vars

\* a claim tied with the score of an earlier fuzzy match, and the earlier
\* owner still holds the line in the returned relation
C7_Witness ==
    /\ pc = "returned"
    /\ \E e \in events :
          /\ e[1] = "tie"
          /\ e[2] \in Mapped(e[3])
          /\ e[2] \notin Mapped(e[4])
          /\ new_line_owner[e[2]][2] < ScoreOne

(***************************************************************************)
(* C8.  The span detect_line_split returns starts at j*, and every         *)
(* extension it keeps has a normalized Levenshtein distance to the old     *)
(* line strictly lower than the span before that extension; a span of      *)
(* more than one index is strictly closer than j* alone.                   *)
(***************************************************************************)
\* distance between the old line being processed and the first k lines of
\* the span, as a fraction
SpanDist(k) ==
    normalized_levenshtein(
        At(old_norm, i_cur),
        Join([m \in 1..k |-> At(new_norm, split_indices[m])]))

StrictlyLower(d1, d2) == d1[1] * d2[2] < d2[1] * d1[2]

C8_SplitStrictlyImproves ==
    pc = "split" =>
        /\ split_indices # << >>
        /\ \A k \in DOMAIN split_indices : split_indices[k] = best_j + k - 1
        /\ \A k \in 2..Len(split_indices) :
              StrictlyLower(SpanDist(k), SpanDist(k - 1))
        /\ Len(split_indices) > 1 =>
              StrictlyLower(SpanDist(Len(split_indices)), SpanDist(1))

\* a span of three lines was returned
C8_Witness ==
    /\ pc = "split"
    /\ Len(split_indices) >= 3

(***************************************************************************)
(* C9.  When the exact alignment leaves no deletion index or no insertion  *)
(* index, the result is exactly the seed mapping (empty for an empty       *)
(* input), every line not seeded is reported unmatched and no fuzzy match  *)
(* is added; an empty old or new sequence, and a new sequence that is the  *)
(* old one with lines only inserted, are such cases.                       *)
(***************************************************************************)
SeedOnly ==
    /\ mapping = SeedMapping(get_opcodes(old_norm, new_norm))
    /\ \A j \in NewIdx :
          j \in DOMAIN new_line_owner => new_line_owner[j][2] = ScoreOne
    /\ events = {}
    /\ deletions = SelectSeq(Range(0, Len(old_lines)),
                             LAMBDA i : Mapped(i) = {})
    /\ additions = SelectSeq(Range(0, Len(new_lines)),
                             LAMBDA j : \A i \in OldIdx : j \notin Mapped(i))
    /\ (old_lines = << >> \/ new_lines = << >>) => mapping = << >>

C9_EarlyReturn ==
    pc = "reported" =>
        /\ NothingToMatch(deletion_indices, addition_indices) => SeedOnly
        /\ ( \/ old_lines = << >>
             \/ new_lines = << >>
             \/ IsSubseq(old_lines, new_lines) )
           => /\ NothingToMatch(deletion_indices, addition_indices)
              /\ SeedOnly

(***************************************************************************)
(* C10.  The unmatched report lists as deletions exactly the non-blank old *)
(* indices without a mapped index and as additions exactly the non-blank   *)
(* new indices in no mapped list; blank lines are in neither list.         *)
(***************************************************************************)
C10_ReportOnlyNonBlank ==
    pc = "reported" =>
        /\ deletions =
              SelectSeq(Range(0, Len(old_lines)),
                        LAMBDA i : /\ ~is_blank(At(old_norm, i))
                                   /\ Mapped(i) = {})
        /\ additions =
              SelectSeq(Range(0, Len(new_lines)),
                        LAMBDA j : /\ ~is_blank(At(new_norm, j))
                                   /\ \A i \in OldIdx : j \notin Mapped(i))

(***************************************************************************)
(* C11.  A run with a non-positive candidate count K, a non-positive       *)
(* fingerprint width B or a threshold outside [0, 1] ends in an error      *)
(* before anything is matched: it never gets past its start, or it has     *)
(* raised with nothing normalized, aligned or mapped.                      *)
(***************************************************************************)
InvalidConfig ==
    \/ config.K <= 0
    \/ config.B <= 0
    \/ config.main < 0 \/ config.main > ScoreOne
    \/ config.split < 0 \/ config.split > ScoreOne

C11_ConfigRejected ==
    InvalidConfig =>
        \/ pc = "start"
        \/ /\ pc = "raised"
           /\ old_norm = << >>
           /\ new_norm = << >>
           /\ mapping = << >>

(***************************************************************************)
(* C12.  In the returned relation every mapped list of more than one       *)
(* element is a contiguous span of new-line indices: it holds every index  *)
(* between its smallest and its largest element.                           *)
(***************************************************************************)
C12_ContiguousSpans ==
    pc \in {"returned", "reported"} =>
        \A i \in DOMAIN mapping :
            \A j1 \in Mapped(i) : \A j2 \in Mapped(i) :
                \A j \in NewIdx : (j1 < j /\ j < j2) => j \in Mapped(i)

(***************************************************************************)
(* C13.  The mapping ldiff returns is injective: no new-line index is the  *)
(* image of two different old-line indices, however many deletion ranges   *)
(* are paired with however many addition ranges.                           *)
(***************************************************************************)
C13_RangeInjective ==
    ld_pc = "returned" =>
        \A i1 \in DOMAIN ld_mapping : \A i2 \in DOMAIN ld_mapping :
            i1 # i2 => ld_mapping[i1] # ld_mapping[i2]

(***************************************************************************)
(* C14.  The mapping compute_mapping returns, after the primary            *)
(* assignment, the neighbour split and the neighbour merge, never holds    *)
(* the same new-line index in the lists of two different old-line indices. *)
(***************************************************************************)
C14_StructExclusive ==
    st_pc = "returned" =>
        \A i1 \in DOMAIN final : \A i2 \in DOMAIN final :
            i1 # i2 =>
               {final[i1][k] : k \in DOMAIN final[i1]}
                  \cap {final[i2][k] : k \in DOMAIN final[i2]} = {}

(***************************************************************************)
(* C15.  When deletion i takes new index j from its owner i', j leaves     *)
(* the mapped list of i' and i is recorded as the owner of j with its      *)
(* score; and when that leaves i' without a mapped index, i' is still to   *)
(* be visited by the loop over the deletions, so that it can be matched    *)
(* again in the same run.                                                  *)
(***************************************************************************)
StillAhead(o) ==
    \E k \in (di + 1)..(Len(deletion_indices) - 1) :
        At(deletion_indices, k) = o

C15_Step ==
    \A j \in DOMAIN new_line_owner :
        new_line_owner'[j] # new_line_owner[j] =>
            LET o == new_line_owner[j][1]
            IN  /\ j \notin MappedIn(mapping', o)
                /\ new_line_owner'[j] = <<i_cur, Score(i_cur, j)>>
                /\ o \notin DOMAIN mapping' => StillAhead(o)

C15_EvictedStaysEligible == [][C15_Step]_vars

(***************************************************************************)
(* C16.  As claimed: get_candidates_for_line returns the min(K, number of  *)
(* insertion indices) insertion indices whose content fingerprints are     *)
(* nearest in Hamming distance to the content fingerprint of the deletion, *)
(* equal distances in ascending new-line index.                            *)
(* As the code has it: the candidates are ranked by 0.6 times the content  *)
(* fingerprint similarity plus 0.4 times the context fingerprint            *)
(* similarity, that is by ascending 6 * content distance + 4 * context     *)
(* distance; candidates at the same two distances come in ascending        *)
(* new-line index; no insertion index left out ranks before one returned.  *)
(***************************************************************************)
ContentDist(i, j) ==
    hamming_distance(At(old_content_hash, i), At(new_content_hash, j))

ContextDist(i, j) ==
    hamming_distance(At(old_context_hash, i), At(new_context_hash, j))

CombinedDist(i, j) == 6 * ContentDist(i, j) + 4 * ContextDist(i, j)

Retrieving == pc \in {"loop", "split", "returned"} /\ FuzzyPhase

Additions == {At(addition_indices, k) : k \in 0..(Len(addition_indices) - 1)}

Deletions == {At(deletion_indices, k) : k \in 0..(Len(deletion_indices) - 1)}

\* j1 ranks before j2 for deletion i by content distance, then by index
ContentBefore(i, j1, j2) ==
    \/ ContentDist(i, j1) < ContentDist(i, j2)
    \/ ContentDist(i, j1) = ContentDist(i, j2) /\ j1 < j2

\* j1 may rank before j2 for deletion i by the combined distance
CombinedBefore(i, j1, j2) ==
    /\ CombinedDist(i, j1) <= CombinedDist(i, j2)
    /\ ContentDist(i, j1) = ContentDist(i, j2)
         /\ ContextDist(i, j1) = ContextDist(i, j2) => j1 < j2

CountReturned(c) ==
    /\ Len(c) = Min(config.K, Len(addition_indices))
    /\ \A m \in DOMAIN c : c[m] \in Additions

C16_CandidatesByContent ==
    Retrieving =>
        \A i \in Deletions :
            LET c == Candidates(i)
            IN  /\ CountReturned(c)
                /\ \A m1 \in DOMAIN c : \A m2 \in DOMAIN c :
                      m1 < m2 => ContentBefore(i, c[m1], c[m2])
                /\ \A m \in DOMAIN c : \A j \in Additions :
                      ~InSeq(c, j) => ContentBefore(i, c[m], j)

C16_CandidatesByCombined ==
    Retrieving =>
        \A i \in Deletions :
            LET c == Candidates(i)
            IN  /\ CountReturned(c)
                /\ \A m1 \in DOMAIN c : \A m2 \in DOMAIN c :
                      m1 < m2 => CombinedBefore(i, c[m1], c[m2])
                /\ \A m \in DOMAIN c : \A j \in Additions :
                      ~InSeq(c, j) => CombinedBefore(i, c[m], j)

\* A run in which the candidate list was cut short and the insertion index
\* nearest by content alone was left out for one nearer by context.
C16_Witness ==
    /\ pc = "split"
    /\ config.K < Len(addition_indices)
    /\ best_j = Candidates(i_cur)[1]
    /\ \E j \in Additions :
          /\ ~InSeq(Candidates(i_cur), j)
          /\ ContentBefore(i_cur, j, best_j)

(***************************************************************************)
(* C17.  As claimed: no candidate retrieved for a deletion has an owner at *)
(* the time of retrieval.                                                  *)
(* As the code has it: the candidates of every deletion are drawn from     *)
(* addition_indices, the new lines the exact alignment left unmatched;     *)
(* none of them is a seeded line, but one may be owned by a deletion       *)
(* processed earlier in the run.                                           *)
(***************************************************************************)
\* the candidates were retrieved for i_cur against the owners of this state
JustRetrieved == pc = "split" /\ sp = 0

Seeded(j) == j \in DOMAIN claim_kind /\ claim_kind[j] = "seed"

C17_CandidatesUnowned ==
    JustRetrieved =>
        \A m \in DOMAIN Candidates(i_cur) :
            Candidates(i_cur)[m] \notin DOMAIN new_line_owner

C17_CandidatesFromInsertions ==
    JustRetrieved =>
        \A m \in DOMAIN Candidates(i_cur) :
            /\ Candidates(i_cur)[m] \in Additions
            /\ ~Seeded(Candidates(i_cur)[m])

\* A candidate list that holds a new line owned by an earlier deletion.
C17_Witness ==
    /\ JustRetrieved
    /\ \E m \in DOMAIN Candidates(i_cur) :
          LET j == Candidates(i_cur)[m]
          IN  /\ j \in DOMAIN new_line_owner
              /\ new_line_owner[j][1] # i_cur
              /\ ~Seeded(j)

(***************************************************************************)
(* C18.  When there are at most K insertion indices, the primary match j*  *)
(* chosen for a deletion does not depend on the fingerprints: a run on the *)
(* same files under any other token hash chooses the same j* for every     *)
(* deletion.                                                               *)
(***************************************************************************)
\* <<best_j, best_score>> for deletion i in the run on the same files whose
\* token hash has the given key
BestUnder(i, key) ==
    LET o_sig == build_line_signatures(old_norm, config.B, key)
        n_sig == build_line_signatures(new_norm, config.B, key)
    IN  BestLoop(get_candidates_for_line(i, addition_indices, o_sig[1],
                                         o_sig[2], n_sig[1], n_sig[2],
                                         config.K, config.B),
                 i, None, 0)

C18_HashIndependent ==
    Retrieving /\ Len(addition_indices) <= config.K =>
        \A i \in Deletions :
            ~is_blank(At(old_norm, i)) =>
                \A key \in HashSeeds : BestUnder(i, key)[1] = Best(i)[1]

(***************************************************************************)
(* C19.  As claimed: the normalized text of a line is the line trimmed,    *)
(* lowercased and with every whitespace run replaced by one space, and     *)
(* nothing else; so an old and a new line are seeded as equal only if they *)
(* are equal after trimming, lowercasing and collapsing.                   *)
(* As the code has it: the normalized text has the same characters other   *)
(* than whitespace as the trimmed, lowercased line, in the same order;     *)
(* two neighbours among them are separated by one space exactly when       *)
(* whitespace separates them in the line and neither is one of             *)
(* = + - * / [ ] ( ) ,  -- the whitespace around these is removed.         *)
(***************************************************************************)
TrimLowerCollapse(s) == CollapseWs(Lower(Strip(s)))

NonWs(s) == SelectSeq(s, LAMBDA c : c \notin Whitespace)

\* the positions in s of its characters other than whitespace
NonWsPos(s) ==
    SelectSeq([k \in 1..Len(s) |-> k], LAMBDA k : s[k] \notin Whitespace)

\* whitespace separates the g-th and the next such character of s
Gap(s, g) == NonWsPos(s)[g + 1] - NonWsPos(s)[g] > 1

SingleSpaced(n) ==
    /\ \A k \in DOMAIN n :
          n[k] \in Whitespace =>
             /\ n[k] = " "
             /\ 1 < k /\ k < Len(n)
             /\ n[k + 1] \notin Whitespace

NormalizedAs(raw, n) ==
    LET c == Lower(Strip(raw))
    IN  /\ NonWs(n) = NonWs(c)
        /\ SingleSpaced(n)
        /\ \A g \in 1..(Len(NonWs(c)) - 1) :
              Gap(n, g) <=> /\ Gap(c, g)
                            /\ NonWs(c)[g] \notin Punct
                            /\ NonWs(c)[g + 1] \notin Punct

Normalized == pc # "start"

C19_OnlyTrimLowerCollapse ==
    Normalized =>
        /\ \A k \in DOMAIN old_lines :
              old_norm[k] = TrimLowerCollapse(old_lines[k])
        /\ \A k \in DOMAIN new_lines :
              new_norm[k] = TrimLowerCollapse(new_lines[k])
        /\ \A j \in DOMAIN claim_kind :
              claim_kind[j] = "seed" =>
                 TrimLowerCollapse(At(old_lines, new_line_owner[j][1]))
                    = TrimLowerCollapse(At(new_lines, j))

C19_PunctuationTightened ==
    Normalized =>
        /\ \A k \in DOMAIN old_lines : NormalizedAs(old_lines[k], old_norm[k])
        /\ \A k \in DOMAIN new_lines : NormalizedAs(new_lines[k], new_norm[k])

\* An old and a new line that differ after trimming, lowercasing and
\* collapsing, and are seeded as equal.
C19_Witness ==
    /\ Normalized
    /\ \E o \in DOMAIN mapping :
          /\ mapping[o] # << >>
          /\ At(old_norm, o) = At(new_norm, mapping[o][1])
          /\ TrimLowerCollapse(At(old_lines, o))
                # TrimLowerCollapse(At(new_lines, mapping[o][1]))

(***************************************************************************)
(* C20.  The seed matches of the exact alignment form a longest common     *)
(* subsequence of the two normalized files: the number of lines in equal   *)
(* spans is the LCS length of old_norm and new_norm.                       *)
(***************************************************************************)
RECURSIVE LCSLen(_, _)
LCSLen(a, b) ==
    IF a = << >> \/ b = << >> THEN 0
    ELSE IF Head(a) = Head(b) THEN 1 + LCSLen(Tail(a), Tail(b))
         ELSE Max(LCSLen(Tail(a), b), LCSLen(a, Tail(b)))

SeedCount == Cardinality(DOMAIN SeedMapping(get_opcodes(old_norm, new_norm)))

C20_SeedsAreLCS == Normalized => SeedCount = LCSLen(old_norm, new_norm)

(***************************************************************************)
(* C21.  detect_line_split returns the run j*, j* + 1, ..., j* + m of new  *)
(* indices: it starts at j*, has between 1 and max_span indices, stays     *)
(* inside the new file, every extension in it strictly lowered the         *)
(* distance, and it ends at the first extension that does not: when there  *)
(* is room for one more line, adding it does not lower the distance.       *)
(***************************************************************************)
\* the distance of old line i_cur to the first k new lines from best_j on
RunDist(k) ==
    normalized_levenshtein(
        At(old_norm, i_cur),
        Join([m \in 1..k |-> At(new_norm, best_j + m - 1)]))

Lowers(d1, d2) == d1[1] * d2[2] < d2[1] * d1[2]

RoomAfter(n) == n < MAX_SPAN /\ best_j + n < Len(new_norm)

C21_SplitRun ==
    pc = "split" =>
        LET n == Len(split_indices)
        IN  /\ 1 <= n /\ n <= MAX_SPAN
            /\ \A k \in 1..n : split_indices[k] = best_j + k - 1
            /\ best_j + n - 1 < Len(new_norm)
            /\ \A k \in 2..n : Lowers(RunDist(k), RunDist(k - 1))
            /\ RoomAfter(n) => ~Lowers(RunDist(n + 1), RunDist(n))

\* A run of two or more lines that stopped at a line which does not lower
\* the distance.
C21_Witness ==
    /\ pc = "split"
    /\ Len(split_indices) >= 2
    /\ RoomAfter(Len(split_indices))

(***************************************************************************)
(* C22.  normalized_levenshtein(a, b) is 0 when a = b (both empty          *)
(* included), 1 when exactly one of them is empty, and otherwise the       *)
(* unit-cost edit distance over max(len(a), len(b)); the distance of the   *)
(* two-row computation is the distance of the full-table recurrence.       *)
(***************************************************************************)
RECURSIVE EditDistance(_, _, _, _)
\* the cell (i, j) of the full table of a and b
EditDistance(a, b, i, j) ==
    IF i = 0 THEN j
    ELSE IF j = 0 THEN i
    ELSE Min(Min(EditDistance(a, b, i - 1, j) + 1,
                 EditDistance(a, b, i, j - 1) + 1),
             EditDistance(a, b, i - 1, j - 1)
                + (IF a[i] = b[j] THEN 0 ELSE 1))

LevReturned == call_fn = "normalized_levenshtein" /\ call_pc = "returned"

C22_NormalizedLevenshtein ==
    LevReturned =>
        LET a == call_args[1]
            b == call_args[2]
        IN  /\ a = b => call_result = <<0, 1>>
            /\ a # b /\ (a = << >> \/ b = << >>) => call_result = <<1, 1>>
            /\ a # b /\ a # << >> /\ b # << >> =>
                  call_result = <<EditDistance(a, b, Len(a), Len(b)),
                                  Max(Len(a), Len(b))>>
            /\ call_result = normalized_levenshtein(a, b)

\* Two different strings of different lengths, neither empty, that share a
\* character: the distance is below the longer length.
C22_Witness ==
    /\ LevReturned
    /\ Len(call_args[1]) > Len(call_args[2])
    /\ call_args[2] # << >>
    /\ 0 < call_result[1]
    /\ call_result[1] < call_result[2]

(***************************************************************************)
(* C23.  For a fixed token hash, simhash depends on the multiset of the    *)
(* tokens only: every permutation of the token list has the same           *)
(* fingerprint; bit i of the fingerprint is 1 exactly when more tokens     *)
(* have bit i of their hash set than clear; the empty list has             *)
(* fingerprint 0.                                                          *)
(***************************************************************************)
TokenOrders(n) ==
    {q \in [1..n -> 1..n] :
        \A x \in 1..n : \A y \in 1..n : q[x] = q[y] => x = y}

\* tokens with bit i of their hash set, minus tokens with it clear
SignedCounter(tokens, i, key) ==
    Cardinality({k \in DOMAIN tokens : HashBit(hash(tokens[k], key), i) = 1})
      - Cardinality({k \in DOMAIN tokens :
                        HashBit(hash(tokens[k], key), i) = 0})

SimhashReturned == call_fn = "simhash" /\ call_pc = "returned"

C23_SimhashOfMultiset ==
    SimhashReturned =>
        LET tokens == call_args[1]
            bits   == call_args[2]
            key    == call_args[3]
        IN  /\ tokens = << >> => call_result = {}
            /\ tokens # << >> =>
                  \A i \in 0..(bits - 1) :
                      i \in call_result <=> SignedCounter(tokens, i, key) > 0
            /\ call_result \subseteq 0..(bits - 1)
            /\ \A q \in TokenOrders(Len(tokens)) :
                  simhash([k \in 1..Len(tokens) |-> tokens[q[k]]], bits, key)
                     = call_result

\* Three tokens, not all the same, with a fingerprint that is not 0.
C23_Witness ==
    /\ SimhashReturned
    /\ Len(call_args[1]) = 3
    /\ call_args[1][1] # call_args[1][3]
    /\ call_result # {}

(***************************************************************************)
(* C24.  lhdiff visits the unmatched deletion indices in strictly          *)
(* ascending order, each exactly once: the list is strictly ascending, the *)
(* loop position moves forward one index at a time, the deletion at work   *)
(* is the one at that position, and the run returns after the last one.    *)
(* A deletion none of whose candidates reaches the main threshold is not a *)
(* key of the relation when it is skipped, nor at any later point, nor in  *)
(* the result.                                                             *)
(***************************************************************************)
\* no non-blank insertion line scores the main threshold against old line i
NoCandidateReaches(i) ==
    \A j \in Additions :
        is_blank(At(new_norm, j)) \/ Score(i, j) < config.main

Ascending(s) == \A k \in 1..(Len(s) - 1) : s[k] < s[k + 1]

\* old line i is no key of the relation, before and after the step
NeverKey(i) == i \notin DOMAIN mapping /\ i \notin DOMAIN mapping'

C24_Step ==
    /\ Retrieving =>
          /\ Ascending(deletion_indices)
          /\ deletion_indices' = deletion_indices
          /\ \A i \in Deletions : NoCandidateReaches(i) => NeverKey(i)
    /\ di' = di \/ di' = di + 1
    /\ di' = di + 1 => pc' = "loop"
    /\ pc' = "split" => /\ di' < Len(deletion_indices)
                        /\ i_cur' = At(deletion_indices, di')
    /\ pc' = "returned" /\ Retrieving => di' = Len(deletion_indices)

C24_AscendingOnce == [][C24_Step]_vars

\* A returned run in which a deletion whose candidates score above 0 and
\* below the main threshold was skipped and the loop went on to another.
C24_Witness ==
    /\ pc = "returned"
    /\ FuzzyPhase
    /\ \E i \in Deletions :
          /\ NoCandidateReaches(i)
          /\ \E j \in Additions : Score(i, j) > 0
          /\ \E i2 \in Deletions : i2 > i

(***************************************************************************)
(* C25.  The fuzzy phase never changes a seed match: at every point of it  *)
(* and in the returned relation, every pair i -> [j] of an equal span is   *)
(* in the relation as it was created, and the ownership record of j is     *)
(* (i, 1.0), whatever deletions were processed and whatever split          *)
(* extensions were probed.                                                 *)
(***************************************************************************)
C25_SeedsUntouched ==
    Retrieving =>
        LET seeds == SeedMapping(get_opcodes(old_norm, new_norm))
        IN  \A i \in DOMAIN seeds :
               /\ i \in DOMAIN mapping
               /\ mapping[i] = seeds[i]
               /\ Len(seeds[i]) = 1
               /\ seeds[i][1] \in DOMAIN new_line_owner
               /\ new_line_owner[seeds[i][1]] = <<i, ScoreOne>>

\* A returned run in which a split extension reached a seeded line, scored
\* the split threshold or more against it, and the seed owner kept it.
C25_Witness ==
    /\ pc = "returned"
    /\ \E e \in events :
          /\ e[1] \in {"lost", "tie"}
          /\ e[2] \in DOMAIN claim_kind
          /\ claim_kind[e[2]] = "seed"
          /\ e[4] \in DOMAIN mapping

(***************************************************************************)
(* C26.  A new-line index that has an ownership record keeps one to the    *)
(* end of the run; its record changes only by a change of owner, and every *)
(* change of owner strictly raises the recorded score.                     *)
(***************************************************************************)
C26_Step ==
    pc # "start" =>
        \A j \in DOMAIN new_line_owner :
            /\ j \in DOMAIN new_line_owner'
            /\ new_line_owner'[j] # new_line_owner[j] =>
                  /\ new_line_owner'[j][1] # new_line_owner[j][1]
                  /\ new_line_owner'[j][2] > new_line_owner[j][2]

C26_ScoresOnlyRise == [][C26_Step]_vars

\* The line at work has just taken a new line from the deletion that owned
\* it.
C26_Witness ==
    /\ pc = "split"
    /\ \E e \in events :
          /\ e[1] = "steal"
          /\ e[4] = i_cur
          /\ new_line_owner[e[2]][1] = i_cur
          /\ e[3] # i_cur

(***************************************************************************)
(* C27.  When the deletion at the loop position is one that ends without a *)
(* match -- its old line is blank, it has no candidate, its best score is  *)
(* below the main threshold, or its best candidate has an owner with a     *)
(* score at least as high -- the step that processes it leaves the         *)
(* relation and the ownership table exactly as they were and moves to the  *)
(* next deletion.                                                          *)
(***************************************************************************)
EndsUnmatched(i) ==
    \/ is_blank(At(old_norm, i))
    \/ Candidates(i) = << >>
    \/ NoCandidateReaches(i)
    \/ /\ Best(i)[1] \in DOMAIN new_line_owner
       /\ new_line_owner[Best(i)[1]][2] >= Best(i)[2]

C27_Step ==
    ( /\ pc = "loop"
      /\ di < Len(deletion_indices)
      /\ EndsUnmatched(At(deletion_indices, di)) )
    => /\ mapping' = mapping
       /\ new_line_owner' = new_line_owner
       /\ di' = di + 1
       /\ pc' = "loop"

C27_SkipChangesNothing == [][C27_Step]_vars

\* The deletion just processed met an owner with a score at least as high
\* and ended without a match, the owner still holding its lines.
C27_Witness ==
    /\ pc = "loop"
    /\ di >= 1
    /\ \E e \in events :
          /\ e[1] \in {"lost", "tie"}
          /\ e[4] = At(deletion_indices, di - 1)
          /\ e[4] \notin DOMAIN mapping
          /\ e[2] \in Mapped(e[3])

(***************************************************************************)
(* C28.  best_line_map called with a threshold above 0 returns exactly one *)
(* record per old line, in the order of the old lines; no new line is the  *)
(* match of two old lines; with monotone=True the matched new-line indices *)
(* strictly increase with the old-line index; and the two lines of every   *)
(* matched pair have a similarity of at least the threshold.               *)
(***************************************************************************)
BestReturned == call_fn = "best_line_map" /\ call_pc = "returned"

\* the 1-based old lines whose record of the returned list names a new line
MatchedOld == {k \in DOMAIN call_result : call_result[k][2] # -1}

C28_BestLineMap ==
    (BestReturned /\ FracGt(call_args[3], <<0, 1>>)) =>
        LET old == call_args[1]
            new == call_args[2]
            m   == call_result
        IN  /\ Len(m) = Len(old)
            /\ \A k \in DOMAIN m :
                  /\ m[k][1] = k
                  /\ m[k][2] = -1 \/ m[k][2] \in 1..Len(new)
            /\ \A k1, k2 \in MatchedOld :
                  k1 < k2 =>
                     /\ m[k1][2] # m[k2][2]
                     /\ call_args[4] => m[k1][2] < m[k2][2]
            /\ \A k \in MatchedOld :
                  FracGeq(sim(old[k], new[m[k][2]]), call_args[3])

\* a monotone call with a threshold above 0 returned two matches, the later
\* old line being more similar to a new line above the earlier match than to
\* its own match
C28_Witness ==
    /\ BestReturned
    /\ FracGt(call_args[3], <<0, 1>>)
    /\ call_args[4]
    /\ \E k1, k2 \in MatchedOld :
          /\ k1 < k2
          /\ \E j \in 1..(call_result[k1][2] - 1) :
                FracGt(sim(call_args[1][k2], call_args[2][j]),
                       sim(call_args[1][k2],
                           call_args[2][call_result[k2][2]]))

=============================================================================
